---- MODULE Spec2Model ----
(***************************************************************************)
(* A model of glampert/parse-utils: the lexer (lexer.hpp) and the          *)
(* preprocessor built on it (preprocessor.hpp).                             *)
(*                                                                         *)
(*   Spec      the preprocessor's main loop, one action per loop iteration *)
(*             of preprocessor::preprocess: conditional stack, skip        *)
(*             counter, directive dispatch, include stack, output.         *)
(*   SpecCond  the same loop on inputs made of conditional directives.     *)
(*   SpecMacro the recursive macro expansion of expand_macro_and_append,   *)
(*             with its call stack made explicit.                           *)
(*   SpecLex   one lexer over a token source: next_token, unget_token and   *)
(*             the check_/peek_/expect_ operations above them.              *)
(*   SpecPunct the punctuation tables and one scan of a punctuator.        *)
(*   SpecReport the error and warning counters of a lexer.                 *)
(*   SpecInclude the include stack over a main script and two files.       *)
(*   SpecTable the macro table through define, undef and find_macro_*.     *)
(*   SpecToken one lexer::token, its setters and its cached numeric value. *)
(*   SpecDefault the default punctuation tables and the tables of the     *)
(*             user, set one after the other.                              *)
(*   SpecSpace the two whitespace and comment skippers over a buffer of    *)
(*             characters.                                                 *)
(*   SpecEval  the expression evaluator of #if and #elif, one action per   *)
(*             token taken and per operator applied.                       *)
(***************************************************************************)
EXTENDS Integers, Sequences, FiniteSets, TLC

VARIABLES
    \* ---- preprocessor (class preprocessor, private members) ----
    m_cond_stack,            \* std::vector<conditional_def>
    m_skipping_conditional,  \* std::int32_t, > 0 while skipping
    m_macros,                \* std::vector<macro_def>
    m_macro_tokens,          \* std::vector<lexer::token>
    m_include_stack,         \* std::vector<lexer *>, as script ids
    m_dynamic_scripts,       \* std::vector<lexer *>: TRUE while the source is loaded
    m_current_script,        \* lexer *, as a script id (0 is the initial script)
    out_text_buffer,         \* the std::string preprocess() appends to, as a sequence of pieces
    pp_state,                \* "running" | "returned_false" | "returned_true" : where preprocess() is
    \* ---- observation of the run (not program state) ----
    chains,                  \* the #if ... #endif chains textually open in the input read so far
    last,                    \* what the last main-loop iteration read and did
    \* ---- macro expansion (SpecMacro) ----
    call_stack,              \* the active calls of expand_macro_and_append
    mx_state,                \* where the run with macros is: "off", "define", "scanning",
                             \* "expanding", "returned_true", "returned_false", or
                             \* "overflow" when the recursion has used up the call stack
    mx_selfref,              \* observation: the expansion has read, in the body of a
                             \* macro, an identifier that names that macro
    \* ---- lexer (class lexer, private members) ----
    script,                  \* the token source behind m_buffer_head_ptr
    m_script_ptr,            \* read position, in tokens consumed
    m_last_script_ptr,
    m_line_num,
    m_last_line_num,
    m_token_available,
    m_leftover_token,
    m_error_count,
    m_warn_count,
    \* ---- observation of the calls made on the lexer (not program state) ----
    hist,                    \* the last calls and what they gave, newest last
    m_flags,                 \* the lexer flags that are set, of no_errors, no_warnings,
                             \* no_fatal_errors
    reports,                 \* observation: the calls of lexer::error and lexer::warning,
                             \* and the messages handed to the error callbacks
    \* ---- punctuation tables (class lexer, static members) and one scan ----
    m_punctuations,          \* const punctuation_def *, indexed from 0
    m_punctuations_table,    \* first character -> head of its chain, or -1
    m_punctuations_next,     \* index -> next index of the chain, or -1
    punct_script,            \* the characters at m_script_ptr, up to the end of the buffer
    punct_result,            \* what internal_read_punctuation gave on punct_script
    \* ---- the files an #include can open (SpecInclude) ----
    files,                   \* file name -> the items of the file
    \* ---- observation of the calls on the macro table (SpecTable) ----
    api,                     \* the last call, its arguments and its result
    defined_as,              \* name -> the value of its last successful define
    calls,                   \* the number of calls made
    \* ---- one lexer::token and the reads of its value (SpecToken) ----
    cached_token,            \* m_string, m_flags, m_type, m_values_valid, m_u64_value,
                             \* m_double_value
    got,                     \* observation: the last as_int64() or as_double() and its result
    \* ---- a script as characters, and the whitespace skippers (SpecSpace) ----
    buffer,                  \* the characters between m_buffer_head_ptr and m_end_ptr
    scan,                    \* m_script_ptr (as an offset), m_line_num, m_warn_count, and
                             \* the last skipper called: where it started, what it returned
    \* ---- the default punctuation tables (class lexer, static members; SpecDefault) ----
    punct_static,            \* default_punctuations_table, default_punctuations_next,
                             \* default_punctuations_initialized, and the last call made
    \* ---- the expression evaluator of #if and #elif (SpecEval) ----
    expr,                    \* m_eval_tokens: the tokens of the expression
    ev                       \* the locals of process_tokens and the result

pp_vars  == << m_cond_stack, m_skipping_conditional, m_include_stack, m_dynamic_scripts,
               m_current_script, out_text_buffer, pp_state,
               chains, last >>
tab_vars == << m_macros, m_macro_tokens >>
mx_vars  == << call_stack, mx_state, mx_selfref >>
lex_vars == << script, m_script_ptr, m_last_script_ptr, m_line_num, m_last_line_num,
               m_token_available, m_leftover_token, m_error_count, m_warn_count,
               hist, m_flags, reports >>
punct_vars == << m_punctuations, m_punctuations_table, m_punctuations_next,
                 punct_script, punct_result >>
table_obs == << api, defined_as, calls >>
tok_vars == << cached_token, got >>
space_vars == << buffer, scan >>
eval_vars == << expr, ev >>
more_vars == << tok_vars, space_vars, punct_static, eval_vars >>
ext_vars == << punct_vars, files, table_obs, more_vars >>
vars     == << pp_vars, tab_vars, mx_vars, lex_vars, ext_vars >>

(***************************************************************************)
(* Bounds of the model.                                                    *)
(***************************************************************************)
MaxCond    == 2   \* #if chains open at once
MaxOut     == 1   \* pieces appended to the output
MaxInclude == 1   \* #include files opened in one run
MaxReports == 1   \* errors, and warnings, a lexer reports
MaxDefs    == 2   \* macros the #define lines before the text define
MaxTokens  == 6   \* tokens those lines put in m_macro_tokens
MaxDepth   == 6   \* nested calls of expand_macro_and_append the call stack can hold

(***************************************************************************)
(* 32-bit unsigned words as << high 16 bits, low 16 bits >>.               *)
(***************************************************************************)
RECURSIVE Pow2(_)
Pow2(k) == IF k = 0 THEN 1 ELSE 2 * Pow2(k - 1)

Half == Pow2(16)

RECURSIVE Xor16(_, _, _)
Xor16(a, b, n) ==
    IF n = 0 THEN 0
    ELSE ((a + b) % 2) + 2 * Xor16(a \div 2, b \div 2, n - 1)

U32(n)       == << n \div Half, n % Half >>
Add32(a, b)  == LET lo == a[2] + b[2]
                IN  << (a[1] + b[1] + lo \div Half) % Half, lo % Half >>
Shl32(a, k)  == << ((a[1] % Pow2(16 - k)) * Pow2(k)) + (a[2] \div Pow2(16 - k)),
                   (a[2] % Pow2(16 - k)) * Pow2(k) >>
Shr32(a, k)  == << a[1] \div Pow2(k),
                   (a[2] \div Pow2(k)) + (a[1] % Pow2(k)) * Pow2(16 - k) >>
Xor32(a, b)  == << Xor16(a[1], b[1], 16), Xor16(a[2], b[2], 16) >>

(***************************************************************************)
(* Names are sequences of characters; Ord gives the character code.        *)
(***************************************************************************)
Upper == << "A", "B", "C", "D", "E", "F", "G", "H", "I", "J", "K", "L", "M",
            "N", "O", "P", "Q", "R", "S", "T", "U", "V", "W", "X", "Y", "Z" >>
Ord(c) == IF c = "_" THEN 95
          ELSE 64 + (CHOOSE i \in 1..26 : Upper[i] = c)

\* The one element of a singleton set: { e(x) : x \in { v } } computes v once.
Only(S) == CHOOSE x \in S : TRUE

\* preprocessor::hash_string: Jenkins one-at-a-time over the characters.
RECURSIVE hash_loop(_, _, _)
hash_loop(str, i, h) ==
    IF i > Len(str) THEN h
    ELSE Only({ hash_loop(str, i + 1, h3) :
                  h3 \in { Xor32(h2, Shr32(h2, 6)) :
                    h2 \in { Add32(h1, Shl32(h1, 10)) :
                      h1 \in { Add32(h, U32(Ord(str[i]))) } } } })

hash_string(str) ==
    Only({ Add32(h2, Shl32(h2, 15)) :
             h2 \in { Xor32(h1, Shr32(h1, 11)) :
               h1 \in { Add32(h0, Shl32(h0, 3)) :
                 h0 \in { hash_loop(str, 1, U32(0)) } } } })

\* The precomputed hashes of the built-in macros.
builtin_macro_file    == << 1825, 24572 >>    \* 0x07215FFC  __FILE__
builtin_macro_line    == << 23985, 45860 >>   \* 0x5DB1B324  __LINE__
builtin_macro_date    == << 28886, 56041 >>   \* 0x70D6DAE9  __DATE__
builtin_macro_time    == << 49965, 49547 >>   \* 0xC32DC18B  __TIME__
builtin_macro_va_args == << 40672, 47530 >>   \* 0x9EE0B9AA  __VA_ARGS__

NameFOO == << "F", "O", "O" >>
NameBAR == << "B", "A", "R" >>
NameA   == << "A" >>
NameB   == << "B" >>
NameG   == << "G" >>
NameX   == << "X" >>
NameP   == << "P" >>
NameFILE == << "_", "_", "F", "I", "L", "E", "_", "_" >>

\* The hashes of the names the model uses, computed once.
AllNames  == { NameFOO, NameBAR, NameA, NameB, NameG, NameX, NameP, NameFILE }
HashTable == [ n \in AllNames |-> hash_string(n) ]

(***************************************************************************)
(* Tokens (class lexer::token).                                            *)
(***************************************************************************)
Tok(str, type, flags) ==
    [ m_string |-> str, m_type |-> type, m_flags |-> flags,
      m_line_num |-> 0, m_lines_crossed |-> 0 ]

empty_token == Tok(<< >>, "none", 0)

\* token::operator == (char) and token::operator != (char)
token_eq_char(tok, c) == Len(tok.m_string) = 1 /\ tok.m_string[1] = c

token_ne_char(tok, c) == Len(tok.m_string) = 1 /\ tok.m_string[1] # c

\* token::operator == (const char *) and token::operator != (const char *)
token_eq_string(tok, str) == tok.m_string = str
token_ne_string(tok, str) == tok.m_string # str

\* token::flags and punctuation_id values the model uses.
flag_integer        == 1
flag_signed_integer == 2
flag_decimal        == 32
flag_floating_point == 128
punct_assign            == 1
punct_logic_eq          == 19
punct_comma             == 38
punct_open_parentheses  == 44
punct_close_parentheses == 45
punct_preprocessor       == 50
punct_preprocessor_merge == 51
default_punctuations_size == 53

is_punctuation_token(tok, id) == tok.m_type = "punctuation" /\ tok.m_flags = id

\* a & b on unsigned integers
RECURSIVE BitAnd(_, _)
BitAnd(a, b) ==
    IF a = 0 \/ b = 0 THEN 0
    ELSE (IF a % 2 = 1 /\ b % 2 = 1 THEN 1 ELSE 0) + 2 * BitAnd(a \div 2, b \div 2)

(***************************************************************************)
(* The lexer (class lexer).  The buffer is a sequence of source tokens,    *)
(* each with the number of newlines in the whitespace before it; there is  *)
(* no whitespace after the last one.  A position in the buffer is the      *)
(* number of source tokens before it.  lx is the record of the members:    *)
(*   script, m_script_ptr, m_last_script_ptr, m_line_num, m_last_line_num, *)
(*   m_token_available, m_leftover_token, m_error_count, m_warn_count      *)
(***************************************************************************)
Src(str, type, flags, newlines) ==
    [ m_string |-> str, m_type |-> type, m_flags |-> flags, newlines |-> newlines ]

\* reports counts the calls of error() and of warning(), the messages handed
\* to m_error_callbacks, and those of them handed as fatal.
NoReports == [ errors |-> 0, warnings |-> 0, printed |-> 0, fatal |-> 0 ]

\* As lexer::error, but a suppressed error is not counted.
lexer_error_counts_printed(lx) ==
    IF "no_errors" \in lx.m_flags
    THEN [ lx EXCEPT !.reports.errors = @ + 1 ]
    ELSE [ lx EXCEPT !.m_error_count = @ + 1,
                     !.reports.errors = @ + 1,
                     !.reports.printed = @ + 1,
                     !.reports.fatal = @ + (IF "no_fatal_errors" \in lx.m_flags THEN 0 ELSE 1) ]

lexer_error(lx) ==
    IF "no_errors" \in lx.m_flags
    THEN [ lx EXCEPT !.m_error_count = @ + 1,
                     !.reports.errors = @ + 1 ]
    ELSE [ lx EXCEPT !.m_error_count = @ + 1,
                     !.reports.errors = @ + 1,
                     !.reports.printed = @ + 1,
                     !.reports.fatal = @ + (IF "no_fatal_errors" \in lx.m_flags THEN 0 ELSE 1) ]

lexer_warning(lx) ==
    IF "no_warnings" \in lx.m_flags
    THEN [ lx EXCEPT !.m_warn_count = @ + 1,
                     !.reports.warnings = @ + 1 ]
    ELSE [ lx EXCEPT !.m_warn_count = @ + 1,
                     !.reports.warnings = @ + 1,
                     !.reports.printed = @ + 1 ]

\* As lexer::reset, leaving the warning counter alone.
lexer_reset_errors_only(lx) ==
    [ lx EXCEPT !.m_script_ptr = 0, !.m_last_script_ptr = 0,
                !.m_last_line_num = 1, !.m_line_num = 1,
                !.m_error_count = 0,
                !.m_token_available = FALSE,
                !.m_leftover_token = empty_token ]

\* lexer::reset
lexer_reset(lx) ==
    [ lx EXCEPT !.m_script_ptr = 0, !.m_last_script_ptr = 0,
                !.m_last_line_num = 1, !.m_line_num = 1,
                !.m_error_count = 0, !.m_warn_count = 0,
                !.m_token_available = FALSE,
                !.m_leftover_token = empty_token ]

\* The part of next_token after the test of the pushback slot: the position is
\* saved, the whitespace skipped and one token scanned.
scan_token(lx) ==
    LET saved == [ lx EXCEPT !.m_last_line_num = lx.m_line_num,
                             !.m_last_script_ptr = lx.m_script_ptr ]
    IN  IF saved.m_script_ptr >= Len(saved.script)
        THEN [ ok |-> FALSE, tok |-> empty_token, lx |-> saved ]  \* internal_read_whitespace fails
        ELSE LET src  == saved.script[saved.m_script_ptr + 1]
                 line == saved.m_line_num + src.newlines
             IN  [ ok  |-> TRUE,
                   tok |-> [ m_string |-> src.m_string, m_type |-> src.m_type,
                             m_flags |-> src.m_flags, m_line_num |-> line,
                             m_lines_crossed |-> line - saved.m_last_line_num ],
                   lx  |-> [ saved EXCEPT !.m_script_ptr = @ + 1,
                                          !.m_line_num = line ] ]

\* next_token that leaves the pushed-back token in its slot.
next_token_keeps_slot(lx) ==
    IF lx.m_token_available
    THEN [ ok |-> TRUE, tok |-> lx.m_leftover_token, lx |-> lx ]
    ELSE scan_token(lx)

\* [ok, tok, lx]: whether a token was read, the token written to out_token,
\* and the lexer afterwards.  The move out of the slot clears the slot's token.
next_token(lx) ==
    IF lx.m_token_available
    THEN [ ok  |-> TRUE,
           tok |-> lx.m_leftover_token,
           lx  |-> [ lx EXCEPT !.m_token_available = FALSE,
                               !.m_leftover_token = empty_token ] ]
    ELSE scan_token(lx)

\* unget_token that keeps the token already in the slot.
unget_token_keeps_first(lx, in_token) ==
    IF lx.m_token_available THEN lexer_warning(lx)
    ELSE [ lx EXCEPT !.m_leftover_token = in_token, !.m_token_available = TRUE ]

unget_token(lx, in_token) ==
    [ (IF lx.m_token_available THEN lexer_warning(lx) ELSE lx)
        EXCEPT !.m_leftover_token = in_token, !.m_token_available = TRUE ]

\* "Unread the token": back to the position saved by the last scan.
lexer_rewind(lx) ==
    [ lx EXCEPT !.m_script_ptr = lx.m_last_script_ptr, !.m_line_num = lx.m_last_line_num ]

\* The operations above next_token give [ret, read, tok, lx]: the value returned,
\* whether next_token read a token, that token, and the lexer afterwards.
Outcome(ret, r, lx) == [ ret |-> ret, read |-> r.ok, tok |-> r.tok, lx |-> lx ]

expect_token_char(lx, c) ==
    LET r == next_token(lx)
    IN  IF ~r.ok THEN Outcome(FALSE, r, lexer_error(r.lx))
        ELSE IF token_ne_char(r.tok, c) THEN Outcome(FALSE, r, lexer_error(r.lx))
        ELSE Outcome(TRUE, r, r.lx)

expect_token_string(lx, str) ==
    LET r == next_token(lx)
    IN  IF ~r.ok THEN Outcome(FALSE, r, lexer_error(r.lx))
        ELSE IF token_ne_string(r.tok, str) THEN Outcome(FALSE, r, lexer_error(r.lx))
        ELSE Outcome(TRUE, r, r.lx)

expect_token_type(lx, type, subtype_flags) ==
    LET r == next_token(lx)
    IN  IF ~r.ok THEN Outcome(FALSE, r, lexer_error(r.lx))
        ELSE IF r.tok.m_type # type THEN Outcome(FALSE, r, lexer_error(r.lx))
        ELSE IF r.tok.m_type = "number"
             THEN IF BitAnd(r.tok.m_flags, subtype_flags) # subtype_flags
                  THEN Outcome(FALSE, r, lexer_error(r.lx))
                  ELSE Outcome(TRUE, r, r.lx)
        ELSE IF r.tok.m_type = "punctuation"
             THEN IF subtype_flags >= default_punctuations_size
                  THEN Outcome(FALSE, r, lexer_error(r.lx))
                  ELSE IF r.tok.m_flags # subtype_flags
                  THEN Outcome(FALSE, r, lexer_error(r.lx))
                  ELSE Outcome(TRUE, r, r.lx)
        ELSE Outcome(TRUE, r, r.lx)

check_token_string(lx, str) ==
    LET r == next_token(lx)
    IN  IF ~r.ok THEN Outcome(FALSE, r, r.lx)
        ELSE IF token_eq_string(r.tok, str) THEN Outcome(TRUE, r, r.lx)
        ELSE Outcome(FALSE, r, lexer_rewind(r.lx))

check_token_type(lx, type, subtype_flags) ==
    LET r == next_token(lx)
    IN  IF ~r.ok THEN Outcome(FALSE, r, r.lx)
        ELSE IF r.tok.m_type = type /\ BitAnd(r.tok.m_flags, subtype_flags) = subtype_flags
             THEN Outcome(TRUE, r, r.lx)
        ELSE Outcome(FALSE, r, lexer_rewind(r.lx))

peek_token_string(lx, str) ==
    LET r == next_token(lx)
    IN  IF ~r.ok THEN Outcome(FALSE, r, r.lx)
        ELSE Outcome(token_eq_string(r.tok, str), r, lexer_rewind(r.lx))

peek_token_type(lx, type, subtype_flags) ==
    LET r == next_token(lx)
    IN  IF ~r.ok THEN Outcome(FALSE, r, r.lx)
        ELSE Outcome(r.tok.m_type = type
                       /\ BitAnd(r.tok.m_flags, subtype_flags) = subtype_flags,
                     r, lexer_rewind(r.lx))

(***************************************************************************)
(* The punctuation tables (lexer::set_punctuation_tables) and the scan of  *)
(* one punctuation (lexer::internal_read_punctuation).  A punctuation      *)
(* array is a function on 0..size-1; a string is a sequence of characters; *)
(* the character that ends a C string is NUL.                              *)
(***************************************************************************)
NUL     == "NUL"
nullptr == << "nullptr" >>      \* the str of the punctuation_id::none entry

punctuation_def(str, id) == [ str |-> str, id |-> id ]

strlen(str) == Len(str)

\* str[l] for a C string: the characters, then the terminator.
CharAt(str, l) == IF l < Len(str) THEN str[l + 1] ELSE NUL

\* The characters the tables are indexed by in the model.
PunctChars ==
    { NUL, "=", "+", "-", "*", "/", "%", ">", "<", "&", "|", "!", "^", "~", ".",
      ":", ",", ";", "?", "\\", "(", ")", "[", "]", "{", "}", "#", "$" }

\* The inner loop of set_punctuation_tables: the first entry of the chain
\* from n on that is shorter than the new one, and the entry before it.
RECURSIVE find_shorter(_, _, _, _, _)
find_shorter(punctuations, next, new_len, n, last_punct_id) ==
    IF n < 0 THEN [ n |-> -1, last_punct_id |-> last_punct_id ]
    ELSE IF strlen(punctuations[n].str) < new_len
         THEN [ n |-> n, last_punct_id |-> last_punct_id ]
         ELSE find_shorter(punctuations, next, new_len, next[n], n)

\* As find_shorter, with <= for <: an entry goes before the entries of its length.
RECURSIVE find_not_longer(_, _, _, _, _)
find_not_longer(punctuations, next, new_len, n, last_punct_id) ==
    IF n < 0 THEN [ n |-> -1, last_punct_id |-> last_punct_id ]
    ELSE IF strlen(punctuations[n].str) <= new_len
         THEN [ n |-> n, last_punct_id |-> last_punct_id ]
         ELSE find_not_longer(punctuations, next, new_len, next[n], n)

\* The links set_punctuation_tables writes for entry i, found to go before n
\* and after last_punct_id.
link_punctuation(punctuations, tabs, i, at) ==
    [ table |-> IF at.last_punct_id >= 0 THEN tabs.table
                ELSE [ tabs.table EXCEPT ![CharAt(punctuations[i].str, 0)] = i ],
      next  |-> [ k \in DOMAIN tabs.next |->
                    IF k = i THEN at.n
                    ELSE IF k = at.last_punct_id THEN i
                    ELSE tabs.next[k] ] ]

insert_punctuation_before_equal(punctuations, tabs, i) ==
    IF punctuations[i].str = nullptr THEN tabs
    ELSE Only({ link_punctuation(punctuations, tabs, i, at) :
                at \in { find_not_longer(punctuations, tabs.next,
                                         strlen(punctuations[i].str),
                                         tabs.table[CharAt(punctuations[i].str, 0)], -1) } })

\* One iteration of the outer loop of set_punctuation_tables, for entry i.
insert_punctuation(punctuations, tabs, i) ==
    IF punctuations[i].str = nullptr THEN tabs
    ELSE Only({ link_punctuation(punctuations, tabs, i, at) :
                at \in { find_shorter(punctuations, tabs.next,
                                      strlen(punctuations[i].str),
                                      tabs.table[CharAt(punctuations[i].str, 0)], -1) } })

RECURSIVE build_tables(_, _, _)
build_tables(punctuations, tabs, i) ==
    IF i \notin DOMAIN punctuations THEN tabs
    ELSE Only({ build_tables(punctuations, t, i + 1) :
                  t \in { insert_punctuation(punctuations, tabs, i) } })

set_punctuation_tables(punctuations) ==
    build_tables(punctuations,
                 [ table |-> [ c \in PunctChars |-> -1 ],
                   next  |-> [ k \in DOMAIN punctuations |-> -1 ] ],
                 0)

\* The comparison loop of internal_read_punctuation: the first l where the
\* script and chars differ or one of them ends.
RECURSIVE match_length(_, _, _)
match_length(chars, script_chars, l) ==
    IF CharAt(chars, l) # NUL /\ CharAt(script_chars, l) # NUL
       /\ CharAt(script_chars, l) = CharAt(chars, l)
    THEN match_length(chars, script_chars, l + 1)
    ELSE l

RECURSIVE read_punctuation_from(_, _, _, _)
read_punctuation_from(punctuations, next, script_chars, n) ==
    IF n < 0 THEN [ ok |-> FALSE, tok |-> empty_token, consumed |-> 0 ]
    ELSE IF punctuations[n].str = nullptr
         THEN read_punctuation_from(punctuations, next, script_chars, next[n])
         ELSE Only({ IF CharAt(punctuations[n].str, l) = NUL
                     THEN [ ok  |-> TRUE,
                            tok |-> Tok(punctuations[n].str, "punctuation",
                                        punctuations[n].id),
                            consumed |-> l ]
                     ELSE read_punctuation_from(punctuations, next, script_chars, next[n]) :
                     l \in { match_length(punctuations[n].str, script_chars, 0) } })

\* As internal_read_punctuation, but the one-character entry wins when it is there.
internal_read_punctuation_shortest(punctuations, table, next, script_chars) ==
    LET first == read_punctuation_from(punctuations, next, script_chars,
                                       table[CharAt(script_chars, 0)])
        ones  == { n \in DOMAIN punctuations :
                     /\ punctuations[n].str # nullptr
                     /\ strlen(punctuations[n].str) = 1
                     /\ punctuations[n].str[1] = CharAt(script_chars, 0) }
    IN  IF first.ok /\ ones # {}
        THEN LET n == CHOOSE k \in ones : TRUE
             IN  [ ok |-> TRUE,
                   tok |-> Tok(punctuations[n].str, "punctuation", punctuations[n].id),
                   consumed |-> 1 ]
        ELSE first

internal_read_punctuation(punctuations, table, next, script_chars) ==
    read_punctuation_from(punctuations, next, script_chars,
                          table[CharAt(script_chars, 0)])

(***************************************************************************)
(* The macro table (m_macros, m_macro_tokens).                             *)
(***************************************************************************)
macro_def(hashed, first_param, param_count, first_body, body_count, empty_fl, va) ==
    [ hashed_name |-> hashed,
      first_param_token |-> first_param, param_token_count |-> param_count,
      first_body_token |-> first_body, body_token_count |-> body_count,
      empty_func_like_macro |-> empty_fl, va_args_macro |-> va ]

builtin_def(hashed) == macro_def(hashed, 0, 0, 0, 0, FALSE, FALSE)

macro_define_builtins(macros) ==
    macros \o << builtin_def(builtin_macro_file), builtin_def(builtin_macro_line),
                 builtin_def(builtin_macro_date), builtin_def(builtin_macro_time),
                 builtin_def(builtin_macro_va_args) >>

\* The index (from 0) of the first record with that hash, or -1.
macro_find_index(macros, hashed_macro_name) ==
    LET hits == { i \in 1..Len(macros) : macros[i].hashed_name = hashed_macro_name }
    IN  IF hits = {} THEN -1
        ELSE (CHOOSE i \in hits : \A j \in hits : i <= j) - 1

is_defined(macros, macro_name) ==
    macro_find_index(macros, HashTable[macro_name]) >= 0

macro_is_builtin(macro) ==
    macro.hashed_name \in { builtin_macro_file, builtin_macro_line, builtin_macro_date,
                            builtin_macro_time, builtin_macro_va_args }

\* As macro_clear_tokens, erasing the slices from the vector.
macro_clear_tokens_erase(tokens, macro) ==
    LET keep == { i \in 1..Len(tokens) :
                    ~(\/ /\ i - 1 >= macro.first_param_token
                         /\ i - 1 <  macro.first_param_token + macro.param_token_count
                      \/ /\ i - 1 >= macro.first_body_token
                         /\ i - 1 <  macro.first_body_token + macro.body_token_count) }
    IN  [ k \in 1..Cardinality(keep) |->
            tokens[CHOOSE i \in keep : Cardinality({ j \in keep : j <= i }) = k] ]

\* Overwrites the parameter and body slices of a macro with empty tokens.
macro_clear_tokens(tokens, macro) ==
    [ i \in 1..Len(tokens) |->
        IF \/ /\ i - 1 >= macro.first_param_token
              /\ i - 1 <  macro.first_param_token + macro.param_token_count
           \/ /\ i - 1 >= macro.first_body_token
              /\ i - 1 <  macro.first_body_token + macro.body_token_count
        THEN empty_token
        ELSE tokens[i] ]

\* macro_define: the record of a name already defined is replaced in place.
macro_define(tab, macro_name, new_macro) ==
    LET named == [ new_macro EXCEPT !.hashed_name = HashTable[macro_name] ]
        idx   == macro_find_index(tab.macros, named.hashed_name)
    IN  IF idx >= 0
        THEN [ macros |-> [ tab.macros EXCEPT ![idx + 1] = named ],
               tokens |-> macro_clear_tokens(tab.tokens, tab.macros[idx + 1]) ]
        ELSE [ macros |-> Append(tab.macros, named), tokens |-> tab.tokens ]

\* As macro_undefine, without moving the last record.
macro_undefine_last(tab, macro_name) ==
    LET idx  == macro_find_index(tab.macros, HashTable[macro_name])
        n    == Len(tab.macros)
    IN  IF tab.macros = << >> \/ idx < 0 THEN tab
        ELSE [ macros |-> SubSeq(tab.macros, 1, n - 1),
               tokens |-> macro_clear_tokens(tab.tokens, tab.macros[idx + 1]) ]

\* macro_undefine: the last record is moved into the place of the removed one.
macro_undefine(tab, macro_name) ==
    LET idx  == macro_find_index(tab.macros, HashTable[macro_name])
        n    == Len(tab.macros)
    IN  IF tab.macros = << >> \/ idx < 0 THEN tab
        ELSE [ macros |-> SubSeq(IF idx + 1 # n
                                 THEN [ tab.macros EXCEPT ![idx + 1] = tab.macros[n] ]
                                 ELSE tab.macros, 1, n - 1),
               tokens |-> macro_clear_tokens(tab.tokens, tab.macros[idx + 1]) ]

(***************************************************************************)
(* The conditional stack (push_conditional, pop_conditional).              *)
(* cs is the pair [stack, skipping] of m_cond_stack and                    *)
(* m_skipping_conditional.                                                 *)
(***************************************************************************)
BoolInt(b) == IF b THEN 1 ELSE 0

push_conditional(cs, type, skip_body, has_parent_state, opt_parent_state) ==
    [ stack    |-> Append(cs.stack,
                          [ type |-> type, skip_body |-> skip_body,
                            parent_state |-> IF has_parent_state THEN opt_parent_state
                                             ELSE skip_body ]),
      skipping |-> cs.skipping + BoolInt(skip_body) ]

\* pop_conditional without the update of the counter.
pop_conditional_keeps_counter(cs) ==
    IF cs.stack = << >>
    THEN [ ok |-> FALSE, type |-> "none", skip |-> FALSE, parent_state |-> FALSE, cs |-> cs ]
    ELSE LET top == cs.stack[Len(cs.stack)]
         IN  [ ok |-> TRUE, type |-> top.type, skip |-> top.skip_body,
               parent_state |-> top.parent_state,
               cs |-> [ stack    |-> SubSeq(cs.stack, 1, Len(cs.stack) - 1),
                        skipping |-> cs.skipping ] ]

\* ok is FALSE on an empty stack; otherwise the top frame is handed out and removed.
pop_conditional(cs) ==
    IF cs.stack = << >>
    THEN [ ok |-> FALSE, type |-> "none", skip |-> FALSE, parent_state |-> FALSE, cs |-> cs ]
    ELSE LET top == cs.stack[Len(cs.stack)]
         IN  [ ok |-> TRUE, type |-> top.type, skip |-> top.skip_body,
               parent_state |-> top.parent_state,
               cs |-> [ stack    |-> SubSeq(cs.stack, 1, Len(cs.stack) - 1),
                        skipping |-> cs.skipping - BoolInt(top.skip_body) ] ]

(***************************************************************************)
(* The conditional directives.  Each gives [cs, err]: the stack and        *)
(* counter it leaves and whether it called error().  eval is the outcome   *)
(* of evaluate_preproc_conditional on the directive's expression:          *)
(* "true", "false", or "error" when the expression was rejected.           *)
(***************************************************************************)
resolve_if_directive(cs, eval) ==
    IF eval = "error" THEN [ cs |-> cs, err |-> TRUE ]
    ELSE [ cs |-> push_conditional(cs, "cond_if", eval = "false", FALSE, FALSE),
           err |-> FALSE ]

\* named is FALSE when no identifier follows the directive on its line.
resolve_ifdef_directive(cs, macros, named, name) ==
    IF ~named THEN [ cs |-> cs, err |-> TRUE ]
    ELSE [ cs |-> push_conditional(cs, "cond_ifdef", ~is_defined(macros, name), FALSE, FALSE),
           err |-> FALSE ]

resolve_ifndef_directive(cs, macros, named, name) ==
    IF ~named THEN [ cs |-> cs, err |-> TRUE ]
    ELSE [ cs |-> push_conditional(cs, "cond_ifndef", is_defined(macros, name), FALSE, FALSE),
           err |-> FALSE ]

resolve_elif_directive(cs, eval) ==
    LET p == pop_conditional(cs)
    IN  IF ~p.ok \/ p.type = "cond_else" THEN [ cs |-> p.cs, err |-> TRUE ]
        ELSE IF eval = "error" THEN [ cs |-> p.cs, err |-> TRUE ]
        ELSE LET result           == (eval = "true")
                 skipped_prev     == p.skip
                 old_parent_state == p.parent_state
                 parent_state     == IF ~(result = FALSE \/ ~skipped_prev)
                                     THEN FALSE ELSE old_parent_state
                 skip_elif        == result = FALSE \/ ~skipped_prev \/ ~old_parent_state
             IN  [ cs  |-> push_conditional(p.cs, "cond_elif", skip_elif, TRUE, parent_state),
                   err |-> FALSE ]

\* resolve_else_directive without the test for a preceding #else.
resolve_else_directive_unchecked(cs) ==
    LET p == pop_conditional(cs)
    IN  IF ~p.ok THEN [ cs |-> p.cs, err |-> TRUE ]
        ELSE LET skip_else == ~p.skip \/ ~p.parent_state
             IN  [ cs  |-> push_conditional(p.cs, "cond_else", skip_else, FALSE, FALSE),
                   err |-> FALSE ]

resolve_else_directive(cs) ==
    LET p == pop_conditional(cs)
    IN  IF ~p.ok THEN [ cs |-> p.cs, err |-> TRUE ]
        ELSE IF p.type = "cond_else" THEN [ cs |-> p.cs, err |-> TRUE ]
        ELSE LET skip_else == ~p.skip \/ ~p.parent_state
             IN  [ cs  |-> push_conditional(p.cs, "cond_else", skip_else, FALSE, FALSE),
                   err |-> FALSE ]

resolve_endif_directive(cs) ==
    LET p == pop_conditional(cs)
    IN  [ cs |-> p.cs, err |-> ~p.ok ]

(***************************************************************************)
(* One iteration of the main loop of preprocessor::preprocess.             *)
(*                                                                         *)
(* st is the preprocessor's state with the effects of the iteration:       *)
(*   cs    [stack, skipping]         m_cond_stack, m_skipping_conditional  *)
(*   tab   [macros, tokens]          m_macros, m_macro_tokens              *)
(*   inc   [stack, dyn, cur]         m_include_stack, m_dynamic_scripts,   *)
(*                                   m_current_script                      *)
(*   emit  the pieces appended to the output buffer                        *)
(*   err, warn   error() / warning() was called                            *)
(*   ret   "running", or "returned_true" when the loop ends                *)
(* The lexer flags are the default ones (m_flags = 0): '$' directives and  *)
(* includes are allowed.                                                   *)
(***************************************************************************)
WithCond(st, r) == [ st EXCEPT !.cs = r.cs, !.err = r.err ]

\* The part of resolve_define_directive after the name: has_list tells whether a
\* '(' follows the name directly, params are the parameter names between the
\* parentheses (no "..."), body the tokens up to the end of the line.
collect_macro(tab, name, has_list, params, body) ==
    LET with_params == IF has_list THEN tab.tokens \o params ELSE tab.tokens
        param_count == IF has_list THEN Len(params) ELSE 0
        new_macro   ==
            macro_def(U32(0),
                      IF has_list /\ param_count # 0 THEN Len(tab.tokens) ELSE 0,
                      param_count,
                      IF body # << >> THEN Len(with_params) ELSE 0,
                      Len(body),
                      has_list /\ param_count = 0,
                      FALSE)
    IN  macro_define([ macros |-> tab.macros, tokens |-> with_params \o body ],
                     name, new_macro)

\* #define NAME with an empty body (named is FALSE when no identifier follows).
resolve_define_directive(st, named, name) ==
    IF ~named THEN [ st EXCEPT !.err = TRUE ]
    ELSE [ st EXCEPT !.tab = collect_macro(st.tab, name, FALSE, << >>, << >>) ]

resolve_undef_directive(st, named, name) ==
    IF ~named THEN [ st EXCEPT !.err = TRUE ]
    ELSE [ st EXCEPT !.tab = macro_undefine(st.tab, name) ]

\* opened is the result of lexer::init_from_file on the named file.
try_open_include_file(inc, opened) ==
    IF ~opened THEN inc
    ELSE [ stack |-> Append(inc.stack, inc.cur),
           dyn   |-> Append(inc.dyn, TRUE),
           cur   |-> Len(inc.dyn) + 1 ]

resolve_include_directive(st, opened) ==
    IF ~opened THEN [ st EXCEPT !.err = TRUE ]
    ELSE [ st EXCEPT !.inc = try_open_include_file(st.inc, opened) ]

resolve_error_directive(st)   == [ st EXCEPT !.err = TRUE ]

resolve_warning_directive(st) == [ st EXCEPT !.warn = TRUE ]

\* d.name is the identifier after '#' ("none" when there is none on the line).
resolve_hash_directive(st, d) ==
    CASE d.name = "none"   -> [ st EXCEPT !.err = TRUE ]
      [] d.name = "if"     -> WithCond(st, resolve_if_directive(st.cs, d.eval))
      [] d.name = "ifdef"  -> WithCond(st, resolve_ifdef_directive(st.cs, st.tab.macros,
                                                                   d.named, d.arg))
      [] d.name = "ifndef" -> WithCond(st, resolve_ifndef_directive(st.cs, st.tab.macros,
                                                                    d.named, d.arg))
      [] d.name = "elif"   -> WithCond(st, resolve_elif_directive(st.cs, d.eval))
      [] d.name = "else"   -> WithCond(st, resolve_else_directive(st.cs))
      [] d.name = "endif"  -> WithCond(st, resolve_endif_directive(st.cs))
      [] OTHER ->
            IF st.cs.skipping > 0 THEN st      \* skip_rest_of_line()
            ELSE CASE d.name = "include" -> resolve_include_directive(st, d.opened)
                   [] d.name = "define"  -> resolve_define_directive(st, d.named, d.arg)
                   [] d.name = "undef"   -> resolve_undef_directive(st, d.named, d.arg)
                   [] d.name = "error"   -> resolve_error_directive(st)
                   [] d.name = "warning" -> resolve_warning_directive(st)
                   [] OTHER              -> [ st EXCEPT !.err = TRUE ]   \* unknown directive

\* d.name is the identifier after '$'; d.eval the outcome of evaluate().
resolve_dollar_directive(st, d) ==
    IF d.name \notin { "eval", "evalint", "evalfloat" } THEN [ st EXCEPT !.err = TRUE ]
    ELSE IF d.eval = "error" THEN [ st EXCEPT !.err = TRUE ]
    ELSE [ st EXCEPT !.emit = << "eval" >> ]

\* The body of the for loop of preprocess(), for the token (or end of input) it reads.
preprocess_step(st, tok) ==
    IF tok.kind = "eof"
    THEN IF st.inc.stack # << >>
         THEN [ st EXCEPT !.inc =
                  [ stack |-> SubSeq(st.inc.stack, 1, Len(st.inc.stack) - 1),
                    dyn   |-> [ st.inc.dyn EXCEPT ![Len(st.inc.dyn)] = FALSE ],
                    cur   |-> st.inc.stack[Len(st.inc.stack)] ] ]
         ELSE [ st EXCEPT !.ret = "returned_true" ]
    ELSE IF tok.kind = "hash"   THEN resolve_hash_directive(st, tok.d)
    ELSE IF tok.kind = "dollar" THEN resolve_dollar_directive(st, tok.d)
    ELSE IF st.cs.skipping > 0  THEN st
    ELSE IF tok.kind = "identifier"
            /\ macro_find_index(st.tab.macros, HashTable[tok.d.arg]) >= 0
         THEN [ st EXCEPT !.emit = << "macro" >> ]     \* expand_macro_and_append
    ELSE [ st EXCEPT !.emit = << "token" >> ]          \* output_append_token_text

(***************************************************************************)
(* Observation of the input: the #if ... #endif chains that are textually  *)
(* open.  Every #elif, #else and #endif belongs to the innermost open      *)
(* chain.  For each chain:                                                 *)
(*   kind        the directive that opened its current branch              *)
(*   any_true    a branch so far (the current one included) had a true     *)
(*               condition, or is the #else                                *)
(*   expected    the current branch is the first whose condition is true,  *)
(*               or the #else when none was                                *)
(*   clean       no conditional directive was rejected since it opened     *)
(***************************************************************************)
CondNames == { "if", "ifdef", "ifndef", "elif", "else", "endif" }
OpenNames == { "if", "ifdef", "ifndef" }

DirName(tok) == IF tok.kind = "hash" THEN tok.d.name ELSE tok.kind

CondValue(tok, macros) ==
    CASE tok.d.name = "if"     -> tok.d.eval = "true"
      [] tok.d.name = "elif"   -> tok.d.eval = "true"
      [] tok.d.name = "ifdef"  -> tok.d.named /\ is_defined(macros, tok.d.arg)
      [] tok.d.name = "ifndef" -> tok.d.named /\ ~is_defined(macros, tok.d.arg)
      [] OTHER                 -> FALSE

ChainRead(ch, tok, macros) ==
    LET name == DirName(tok)
        n    == Len(ch)
        v    == CondValue(tok, macros)
    IN  CASE name \in OpenNames ->
               Append(ch, [ kind |-> "if", any_true |-> v, expected |-> v, clean |-> TRUE ])
          [] name = "elif" /\ n > 0 ->
               [ ch EXCEPT ![n] = [ @ EXCEPT !.kind = "elif",
                                             !.expected = ~ch[n].any_true /\ v,
                                             !.any_true = ch[n].any_true \/ v ] ]
          [] name = "else" /\ n > 0 ->
               [ ch EXCEPT ![n] = [ @ EXCEPT !.kind = "else",
                                             !.expected = ~ch[n].any_true,
                                             !.any_true = TRUE ] ]
          [] name = "endif" /\ n > 0 -> SubSeq(ch, 1, n - 1)
          [] OTHER -> ch

ChainStep(ch, tok, macros, o) ==
    LET read == IF o.err /\ DirName(tok) \in { "elif", "else" }
                THEN ch     \* a rejected directive starts no branch
                ELSE ChainRead(ch, tok, macros)
    IN  IF o.err /\ DirName(tok) \in CondNames
        THEN [ i \in 1..Len(read) |-> [ read[i] EXCEPT !.clean = FALSE ] ]
        ELSE read

\* What the claims distinguish in the token read by an iteration.
Class(tok) ==
    LET name == DirName(tok)
    IN  CASE name \in CondNames \cup { "eof" } -> name
          [] tok.kind = "hash" /\ name \in { "include", "define", "undef", "error", "warning" }
                -> "directive"
          [] tok.kind = "dollar" /\ tok.d.name \in { "eval", "evalint", "evalfloat" } -> "eval"
          [] tok.kind \in { "hash", "dollar" } -> "malformed"
          [] OTHER -> "text"

NoLast == [ kind |-> "none", report |-> "none" ]

\* A chain is live when every chain around it is in its expected branch.
Live(ch, i) == \A j \in 1..(i - 1) : ch[j].expected

(***************************************************************************)
(* The preprocessor run: Init is the state after init_from_memory() and    *)
(* the call of preprocess(); each action is one loop iteration on the      *)
(* token the lexer hands out next.                                         *)
(***************************************************************************)
PPNames    == { NameFOO }
IfdefNames == { NameFOO, NameBAR }

D(name, eval, named, arg, opened) ==
    [ name |-> name, eval |-> eval, named |-> named, arg |-> arg, opened |-> opened ]

Hash(name, eval, named, arg, opened) ==
    [ kind |-> "hash", d |-> D(name, eval, named, arg, opened) ]

Current ==
    [ cs   |-> [ stack |-> m_cond_stack, skipping |-> m_skipping_conditional ],
      tab  |-> [ macros |-> m_macros, tokens |-> m_macro_tokens ],
      inc  |-> [ stack |-> m_include_stack, dyn |-> m_dynamic_scripts,
                 cur |-> m_current_script ],
      emit |-> << >>, err |-> FALSE, warn |-> FALSE, ret |-> "running" ]

MacroIdle == /\ call_stack = << >>
             /\ mx_state = "off"
             /\ mx_selfref = FALSE

LexIdle == /\ script = << >>
           /\ m_script_ptr = 0
           /\ m_last_script_ptr = 0
           /\ m_line_num = 1
           /\ m_last_line_num = 1
           /\ m_token_available = FALSE
           /\ m_leftover_token = empty_token
           /\ m_error_count = 0
           /\ m_warn_count = 0
           /\ hist = << >>
           /\ m_flags = {}
           /\ reports = NoReports

NoResult == [ called |-> FALSE, ok |-> FALSE, tok |-> empty_token, consumed |-> 0 ]

PunctIdle == /\ m_punctuations = << >>
             /\ m_punctuations_table = << >>
             /\ m_punctuations_next = << >>
             /\ punct_script = << >>
             /\ punct_result = NoResult

NoValue == [ kind |-> "none", int_v |-> 0, str_v |-> << >>, body |-> << >> ]

NoCall == [ op |-> "none", name |-> << >>, allow |-> FALSE, ret |-> FALSE,
            stored |-> FALSE, was_defined |-> FALSE, value |-> NoValue ]

TableIdle == /\ api = NoCall
             /\ defined_as = << >>
             /\ calls = 0

\* A double as num / 10^places.
Dbl(num, places) == [ num |-> num, places |-> places ]

\* token() = default
default_token ==
    [ m_string |-> << >>, m_flags |-> 0, m_type |-> "none",
      m_values_valid |-> TRUE, m_u64_value |-> 0, m_double_value |-> Dbl(0, 0) ]

NoRead == [ op |-> "none", int_v |-> 0, dbl_v |-> Dbl(0, 0), stale |-> FALSE ]

TokenIdle == cached_token = default_token /\ got = NoRead

NoScan == [ m_script_ptr |-> 0, m_line_num |-> 1, m_warn_count |-> 0,
            op |-> "none", ret |-> FALSE, from |-> 0 ]

SpaceIdle == buffer = << >> /\ scan = NoScan

\* The static storage before the initializer of the lexer has run.
NoStatic == [ table |-> << >>, next |-> << >>, initialized |-> FALSE,
              last |-> "none", custom_used |-> FALSE ]

StaticIdle == punct_static = NoStatic

EvalIdle == expr = << >> /\ ev = [ pc |-> "idle" ]

MoreIdle == TokenIdle /\ SpaceIdle /\ StaticIdle /\ EvalIdle

ExtIdle == PunctIdle /\ files = << >> /\ TableIdle /\ MoreIdle

PPIdle == /\ m_cond_stack = << >>
          /\ m_skipping_conditional = 0
          /\ m_include_stack = << >>
          /\ m_dynamic_scripts = << >>
          /\ m_current_script = 0
          /\ out_text_buffer = << >>
          /\ chains = << >>
          /\ last = NoLast

Init == /\ PPIdle
        /\ ExtIdle
        /\ pp_state = "running"
        /\ m_macros = macro_define_builtins(<< >>)
        /\ m_macro_tokens = << >>
        /\ MacroIdle
        /\ LexIdle

Step(tok) ==
    LET o == preprocess_step(Current, tok)
    IN  /\ pp_state = "running"
        /\ DirName(tok) \in OpenNames => Len(chains) < MaxCond
        /\ Len(out_text_buffer) + Len(o.emit) <= MaxOut
        /\ Len(o.inc.dyn) <= MaxInclude
        /\ m_cond_stack' = o.cs.stack
        /\ m_skipping_conditional' = o.cs.skipping
        /\ m_macros' = o.tab.macros
        /\ m_macro_tokens' = o.tab.tokens
        /\ m_include_stack' = o.inc.stack
        /\ m_dynamic_scripts' = o.inc.dyn
        /\ m_current_script' = o.inc.cur
        /\ out_text_buffer' = out_text_buffer \o o.emit
        /\ pp_state' = IF o.err THEN "returned_false" ELSE o.ret
        /\ chains' = ChainStep(chains, tok, m_macros, o)
        /\ last' = [ kind   |-> Class(tok),
                     report |-> IF o.err THEN "error" ELSE IF o.warn THEN "warning" ELSE "none" ]
        /\ UNCHANGED << mx_vars, lex_vars, ext_vars >>

EvalOutcomes == { "true", "false", "error" }

ReadIf      == \E e \in EvalOutcomes : Step(Hash("if", e, TRUE, NameFOO, FALSE))
ReadIfdef   == \E b \in BOOLEAN, n \in IfdefNames : Step(Hash("ifdef", "true", b, n, FALSE))
ReadIfndef  == \E b \in BOOLEAN, n \in IfdefNames : Step(Hash("ifndef", "true", b, n, FALSE))
ReadElif    == \E e \in EvalOutcomes : Step(Hash("elif", e, TRUE, NameFOO, FALSE))
ReadElse    == Step(Hash("else", "true", TRUE, NameFOO, FALSE))
ReadEndif   == Step(Hash("endif", "true", TRUE, NameFOO, FALSE))
ReadDefine  == \E b \in BOOLEAN, n \in PPNames : Step(Hash("define", "true", b, n, FALSE))
ReadUndef   == \E b \in BOOLEAN, n \in PPNames : Step(Hash("undef", "true", b, n, FALSE))
ReadInclude == \E f \in BOOLEAN : Step(Hash("include", "true", TRUE, NameFOO, f))
ReadError   == Step(Hash("error", "true", TRUE, NameFOO, FALSE))
ReadWarning == Step(Hash("warning", "true", TRUE, NameFOO, FALSE))
ReadUnknown == \E x \in { "none", "unknown" } : Step(Hash(x, "true", TRUE, NameFOO, FALSE))
ReadDollar  == \E x \in { "eval", "unknown" }, e \in { "true", "error" } :
                   Step([ kind |-> "dollar", d |-> D(x, e, TRUE, NameFOO, FALSE) ])
ReadIdentifier == \E n \in PPNames :
                   Step([ kind |-> "identifier", d |-> D("none", "true", TRUE, n, FALSE) ])
ReadToken   == Step([ kind |-> "token", d |-> D("none", "true", TRUE, NameFOO, FALSE) ])
EndOfScript == Step([ kind |-> "eof", d |-> D("none", "true", TRUE, NameFOO, FALSE) ])

\* preprocess() is called again after it returned false.
CallPreprocess ==
    /\ pp_state = "returned_false"
    /\ pp_state' = "running"
    /\ last' = [ NoLast EXCEPT !.kind = "call" ]
    /\ UNCHANGED << m_cond_stack, m_skipping_conditional, m_include_stack, m_dynamic_scripts,
                    m_current_script, out_text_buffer, chains,
                    tab_vars, mx_vars, lex_vars, ext_vars >>

Next == \/ ReadIf \/ ReadIfdef \/ ReadIfndef \/ ReadElif \/ ReadElse \/ ReadEndif
        \/ ReadDefine \/ ReadUndef \/ ReadInclude \/ ReadError \/ ReadWarning
        \/ ReadUnknown \/ ReadDollar \/ ReadIdentifier \/ ReadToken
        \/ EndOfScript \/ CallPreprocess

Spec == Init /\ [][Next]_vars

(***************************************************************************)
(* The conditional engine alone: the input holds conditional directives    *)
(* only, and FOO was defined through preprocessor::define() before the     *)
(* run.                                                                    *)
(***************************************************************************)
InitCond ==
    /\ PPIdle
    /\ ExtIdle
    /\ pp_state = "running"
    /\ m_macros = macro_define(
                      [ macros |-> macro_define_builtins(<< >>), tokens |-> << >> ],
                      NameFOO, builtin_def(U32(0))).macros
    /\ m_macro_tokens = << >>
    /\ MacroIdle
    /\ LexIdle

NextCond == \/ ReadIf \/ ReadIfdef \/ ReadIfndef \/ ReadElif \/ ReadElse \/ ReadEndif
            \/ EndOfScript \/ CallPreprocess

SpecCond == InitCond /\ [][NextCond]_vars

(***************************************************************************)
(* Claims about the conditional engine.                                    *)
(***************************************************************************)
TopChain == chains[Len(chains)]
TopFrame == m_cond_stack[Len(m_cond_stack)]

Emits == out_text_buffer' # out_text_buffer

\* C1: in an #if/#elif/#else/#endif chain that is not nested in a skipped block,
\* output is appended only while the chain is in its expected branch (the first
\* branch whose condition is true, or the #else when none was): the body of
\* every other branch is discarded.
C1_OnlyExpectedBranchEmitted ==
    [][ Emits =>
          \A i \in 1..Len(chains) :
              (chains[i].clean /\ Live(chains, i)) => chains[i].expected ]_vars

\* The same with the output of '$' directives left aside: plain tokens and macro
\* expansions are appended in the expected branch only.
C1_TokensOnlyInExpectedBranch ==
    [][ (Emits /\ last'.kind # "eval") =>
          \A i \in 1..Len(chains) :
              (chains[i].clean /\ Live(chains, i)) => chains[i].expected ]_vars

\* C2: the skip counter equals the number of frames on the conditional stack
\* whose skip_body flag is set, also after directives that were rejected.
C2_CounterMirrorsSkipFrames ==
    m_skipping_conditional =
        Cardinality({ i \in 1..Len(m_cond_stack) : m_cond_stack[i].skip_body })

\* A rejected #elif or #else has removed a frame and a skipping frame is still counted.
C2_Witness ==
    /\ pp_state = "returned_false"
    /\ last.kind \in { "elif", "else" }
    /\ m_skipping_conditional = 1
    /\ Len(m_cond_stack) = 1

\* C3: while the skip counter is positive nothing is appended to the output, and
\* #include, #define, #undef, #error and #warning change nothing and report nothing.
C3_SkippedBlockHasNoEffect ==
    [][ m_skipping_conditional > 0 =>
          /\ ~Emits
          /\ last'.kind = "directive" =>
                /\ UNCHANGED << m_macros, m_macro_tokens, m_include_stack,
                                m_dynamic_scripts, m_current_script >>
                /\ last'.report = "none" ]_vars

\* C4: an #endif, #else or #elif read while no chain is open is reported as an
\* error, and so is a chain that is still open when the input ends.
C4_UnmatchedIsError ==
    [][ /\ (last'.kind \in { "endif", "else", "elif" } /\ chains = << >>)
              => last'.report = "error"
        /\ (last'.kind = "eof" /\ pp_state' = "returned_true" /\ chains # << >>)
              => last'.report = "error" ]_vars

\* The first half of C4 alone: a stray #endif, #else or #elif is an error.
C4_StrayIsError ==
    [][ (last'.kind \in { "endif", "else", "elif" } /\ chains = << >>)
              => last'.report = "error" ]_vars

C29_RejectedLeavesStack ==
    [][ (last'.kind \in { "elif", "else", "endif" } /\ last'.report = "error")
        => UNCHANGED << m_cond_stack, m_skipping_conditional >> ]_vars

\* The part of C29 the code keeps: a directive rejected on an empty stack
\* leaves the stack empty and the counter alone.
C29_RejectedOnEmptyStack ==
    [][ ( /\ last'.kind \in { "elif", "else", "endif" }
          /\ last'.report = "error"
          /\ m_cond_stack = << >> )
        => UNCHANGED << m_cond_stack, m_skipping_conditional >> ]_vars

\* An #else was rejected after an #else whose body was being skipped: the
\* frame is gone and the counter went down with it.
C29_Witness ==
    /\ last.kind = "else"
    /\ last.report = "error"
    /\ chains # << >>
    /\ TopChain.kind = "else"
    /\ m_cond_stack = << >>
    /\ m_skipping_conditional = 0

(***************************************************************************)
(* One lexer over a source of three tokens on two lines,                   *)
(*     X                                                                   *)
(*     == 1                                                                *)
(* and a caller that makes any sequence of calls on it.                    *)
(***************************************************************************)
LexSource ==
    << Src(<< "X" >>, "identifier", 0, 0),
       Src(<< "=", "=" >>, "punctuation", punct_logic_eq, 1),
       Src(<< "1" >>, "number", flag_integer + flag_signed_integer + flag_decimal, 0) >>

RECURSIVE LineAt(_, _)
LineAt(src, i) == IF i = 0 THEN 1 ELSE LineAt(src, i - 1) + src[i].newlines

\* The i-th token of the source as next_token hands it out.
SourceTok(src, i) ==
    [ m_string |-> src[i].m_string, m_type |-> src[i].m_type, m_flags |-> src[i].m_flags,
      m_line_num |-> LineAt(src, i), m_lines_crossed |-> src[i].newlines ]

\* What the caller passes to unget_token: a token of the source or one of its own.
UngetTokens == { SourceTok(LexSource, i) : i \in 1..Len(LexSource) }
                  \cup { Tok(<< "z" >>, "identifier", 0) }

Strings  == { << "X" >>, << "=", "=" >>, << "=" >> }
Chars    == { "X", "=", "1" }
TypeArgs == { << "identifier", 0 >>, << "punctuation", punct_logic_eq >>,
              << "punctuation", punct_assign >>, << "number", flag_integer >>,
              << "number", flag_floating_point >> }

Lex ==
    [ script |-> script, m_script_ptr |-> m_script_ptr,
      m_last_script_ptr |-> m_last_script_ptr,
      m_line_num |-> m_line_num, m_last_line_num |-> m_last_line_num,
      m_token_available |-> m_token_available, m_leftover_token |-> m_leftover_token,
      m_error_count |-> m_error_count, m_warn_count |-> m_warn_count,
      m_flags |-> m_flags, reports |-> reports ]

SetLex(lx) ==
    /\ script' = lx.script
    /\ m_script_ptr' = lx.m_script_ptr
    /\ m_last_script_ptr' = lx.m_last_script_ptr
    /\ m_line_num' = lx.m_line_num
    /\ m_last_line_num' = lx.m_last_line_num
    /\ m_token_available' = lx.m_token_available
    /\ m_leftover_token' = lx.m_leftover_token
    /\ m_error_count' = lx.m_error_count
    /\ m_warn_count' = lx.m_warn_count
    /\ m_flags' = lx.m_flags
    /\ reports' = lx.reports

\* hist keeps the last three calls.  The newest entry has the call (op, and arg:
\* the character, the string, or the type and subtype, as a sequence), the
\* read position before it (ptr), whether a token was read, the token read (for
\* unget_token: the token passed), the value returned and what was reported.  Of
\* the call before it the argument and the report are dropped; of the one before
\* that only the kind of call, the token and, for unget_token, the position stay.
NoArg == << >>

Entry(op, arg, o, before) ==
    [ op |-> op, arg |-> arg, ptr |-> before.m_script_ptr,
      read |-> o.read, tok |-> o.tok, ret |-> o.ret,
      report |-> IF o.lx.m_error_count > before.m_error_count THEN "error"
                 ELSE IF o.lx.m_warn_count > before.m_warn_count THEN "warning"
                 ELSE "none" ]

Older(e) ==
    [ e EXCEPT !.arg = NoArg, !.report = "none",
               !.ptr = IF e.op = "unget_token" THEN e.ptr ELSE 0 ]

Oldest(e) ==
    [ op |-> IF e.op \in { "unget_token", "next_token" } THEN e.op ELSE "other",
      arg |-> NoArg, ptr |-> e.ptr, read |-> FALSE,
      tok |-> IF e.op \in { "unget_token", "next_token" } THEN e.tok ELSE empty_token,
      ret |-> FALSE, report |-> "none" ]

Record(h, e) ==
    CASE Len(h) = 0 -> << e >>
      [] Len(h) = 1 -> << Older(h[1]), e >>
      [] OTHER      -> << Oldest(h[Len(h) - 1]), Older(h[Len(h)]), e >>

InitLex ==
    /\ PPIdle
    /\ ExtIdle
    /\ pp_state = "off"
    /\ m_macros = << >>
    /\ m_macro_tokens = << >>
    /\ MacroIdle
    /\ script = LexSource
    /\ m_script_ptr = 0
    /\ m_last_script_ptr = 0
    /\ m_line_num = 1
    /\ m_last_line_num = 1
    /\ m_token_available = FALSE
    /\ m_leftover_token = empty_token
    /\ m_error_count = 0
    /\ m_warn_count = 0
    /\ hist = << >>
    /\ m_flags = {}
    /\ reports = NoReports

\* A call of the lexer with outcome o.
Call(op, arg, o) ==
    /\ o.lx.m_error_count <= MaxReports
    /\ o.lx.m_warn_count <= MaxReports
    /\ SetLex(o.lx)
    /\ hist' = Record(hist, Entry(op, arg, o, Lex))
    /\ UNCHANGED << pp_vars, tab_vars, mx_vars, ext_vars >>

NextToken ==
    LET r == next_token(Lex)
    IN  Call("next_token", NoArg, Outcome(r.ok, r, r.lx))

UngetToken ==
    \E t \in UngetTokens :
        Call("unget_token", NoArg,
             [ ret |-> TRUE, read |-> FALSE, tok |-> t, lx |-> unget_token(Lex, t) ])

ExpectTokenChar   == \E c \in Chars : Call("expect_token_char", << c >>, expect_token_char(Lex, c))
ExpectTokenString == \E str \in Strings :
                         Call("expect_token_string", str, expect_token_string(Lex, str))
ExpectTokenType   == \E a \in TypeArgs :
                         Call("expect_token_type", a, expect_token_type(Lex, a[1], a[2]))
CheckTokenString  == \E str \in Strings :
                         Call("check_token_string", str, check_token_string(Lex, str))
CheckTokenType    == \E a \in TypeArgs :
                         Call("check_token_type", a, check_token_type(Lex, a[1], a[2]))
PeekTokenString   == \E str \in Strings :
                         Call("peek_token_string", str, peek_token_string(Lex, str))
PeekTokenType     == \E a \in TypeArgs :
                         Call("peek_token_type", a, peek_token_type(Lex, a[1], a[2]))

NextLex == \/ NextToken \/ UngetToken
           \/ ExpectTokenChar \/ ExpectTokenString \/ ExpectTokenType
           \/ CheckTokenString \/ CheckTokenType
           \/ PeekTokenString \/ PeekTokenType

SpecLex == InitLex /\ [][NextLex]_vars

(***************************************************************************)
(* Macro expansion: expand_macro_and_append and                            *)
(* expand_recursive_macro_and_append, with the calls in progress kept in   *)
(* call_stack.  A frame is one call of expand_macro_and_append:            *)
(*   macro_index         the macro expanded                                *)
(*   out                 where out_text_buffer points: 0 for the buffer of *)
(*                       preprocess(), k for the current_param_text of the *)
(*                       k-th frame                                        *)
(*   pack                param_pack: the tokens after the macro's name     *)
(*   parent              parent_pack: the caller's parameters              *)
(*   pc                  "enter", "args" (the loop that collects the       *)
(*                       arguments), "close" (after that loop), "body"     *)
(*                       (the loop over the body), "args_wait" and         *)
(*                       "body_wait" while a nested call runs              *)
(*   tok, expect_comma, parentheses_count, current_param_text,             *)
(*   params_provided, b  the locals of the same names (b is also the i of  *)
(*                       the loop over the body of an object-like macro)   *)
(* Texts are sequences of token strings: the blanks between tokens are     *)
(* left out.  Macros have no "..." parameter.                              *)
(***************************************************************************)
IdTok(name)    == Tok(name, "identifier", 0)
PunctTok(c, id) == Tok(<< c >>, "punctuation", id)
OpenParen  == PunctTok("(", punct_open_parentheses)
CloseParen == PunctTok(")", punct_close_parentheses)
NumberOne  == Tok(<< "1" >>, "number", flag_integer + flag_signed_integer + flag_decimal)

\* macro_parameter_pack built on the script or on a slice of m_macro_tokens.
\* owner is the macro whose body the slice lies in (an observation; -1 for none).
ScriptPack == [ kind |-> "script", first |-> 0, avail |-> 0, consumed |-> 0, owner |-> -1 ]

TokensPack(first, count, owner) ==
    [ kind |-> "tokens", first |-> first, avail |-> count, consumed |-> 0, owner |-> owner ]

\* macro_parameter_pack built on the parameters of a caller: names are the
\* parameter names (empty for a null pointer), provided the arguments.
ParentPack(names, provided) == [ null |-> FALSE, names |-> names, provided |-> provided ]
NullParent == [ null |-> TRUE, names |-> << >>, provided |-> << >> ]

\* macro_parameter_pack::next_token
pack_next_token(pack, lx, tokens) ==
    IF pack.kind = "script"
    THEN LET r == next_token(lx)
         IN  [ ok |-> r.ok, tok |-> r.tok, lx |-> r.lx,
               pack |-> IF r.ok THEN [ pack EXCEPT !.consumed = @ + 1 ] ELSE pack ]
    ELSE IF pack.consumed < pack.avail
         THEN [ ok |-> TRUE, tok |-> tokens[pack.first + pack.consumed + 1], lx |-> lx,
                pack |-> [ pack EXCEPT !.consumed = @ + 1 ] ]
         ELSE [ ok |-> FALSE, tok |-> empty_token, lx |-> lx, pack |-> pack ]

\* macro_parameter_pack::find_param: the position of the argument, 0 for nullptr.
find_param(parent, wanted) ==
    LET hits == { t \in 1..Len(parent.provided) :
                    /\ t <= Len(parent.names)
                    /\ parent.names[t].m_type = wanted.m_type
                    /\ parent.names[t].m_string = wanted.m_string }
    IN  IF parent.names = << >> \/ hits = {} THEN 0
        ELSE CHOOSE t \in hits : \A u \in hits : t <= u

NewFrame(macro_index, out, pack, parent) ==
    [ macro_index |-> macro_index, out |-> out, pack |-> pack, parent |-> parent,
      pc |-> "enter", tok |-> empty_token, expect_comma |-> FALSE,
      parentheses_count |-> 0, current_param_text |-> << >>,
      params_provided |-> << >>, b |-> 0 ]

\* The concatenation of the pieces of a text.
RECURSIVE Flatten(_)
Flatten(text) == IF text = << >> THEN << >> ELSE Head(text) \o Flatten(Tail(text))

\* The state an expansion step works on and gives back:
\*   stack, lx, out   call_stack, the lexer of the script, the output buffer
\*   status           "expanding", or how the outermost call ended
\*   selfref          the step read a reference of a macro to itself in its body
Mx(stack, lx, out, status, selfref) ==
    [ stack |-> stack, lx |-> lx, out |-> out, status |-> status, selfref |-> selfref ]

\* preprocessor::error in a call: every call in progress returns false.
MxError(m, selfref) == Mx(<< >>, m.lx, m.out, "returned_false", selfref)

\* text is appended to what the top frame's out_text_buffer points to.
MxAppend(m, text) ==
    LET target == m.stack[Len(m.stack)].out
    IN  IF target = 0 THEN [ m EXCEPT !.out = @ \o text ]
        ELSE [ m EXCEPT !.stack[target].current_param_text = @ \o text ]

\* The top frame returns true: its caller goes on after the call.
MxReturn(m) ==
    LET n    == Len(m.stack)
        top  == m.stack[n]
        rest == SubSeq(m.stack, 1, n - 1)
    IN  IF n = 1 THEN [ m EXCEPT !.stack = << >>, !.status = "scanning" ]
        ELSE IF rest[n - 1].pc = "args_wait"
        THEN [ m EXCEPT !.stack = [ rest EXCEPT ![n - 1].pc = "args",
                                                ![n - 1].expect_comma = TRUE ] ]
        ELSE \* expand_recursive_macro_and_append returns param_pack.tokens_consumed()
             [ m EXCEPT !.stack = [ rest EXCEPT ![n - 1].pc = "body",
                                                ![n - 1].b = @ + top.pack.consumed + 1 ] ]

\* A nested call of expand_macro_and_append; the call stack holds MaxDepth calls.
MxCall(m, wait, frame, selfref) ==
    IF Len(m.stack) >= MaxDepth
    THEN Mx(<< >>, m.lx, m.out, "overflow", selfref)
    ELSE [ m EXCEPT !.stack = Append([ m.stack EXCEPT ![Len(m.stack)].pc = wait ], frame),
                    !.selfref = selfref ]

\* The checks for a '#' or "##" at the ends of the body.
bad_body_ends(macro, tokens, func_like) ==
    /\ macro.body_token_count # 0
    /\ LET first_tok == tokens[macro.first_body_token + 1]
           last_tok  == tokens[macro.first_body_token + macro.body_token_count]
       IN  \/ is_punctuation_token(last_tok, punct_preprocessor)
           \/ is_punctuation_token(first_tok, punct_preprocessor_merge)
           \/ is_punctuation_token(last_tok, punct_preprocessor_merge)
           \/ ~func_like /\ is_punctuation_token(first_tok, punct_preprocessor)

\* expand_recursive_macro_and_append, called for the body token b of the top frame.
expand_recursive_macro_and_append(m, macros, tokens, other_macro_index) ==
    LET f          == m.stack[Len(m.stack)]
        macro      == macros[f.macro_index + 1]
        next_token_index == f.b + 1
        func_like  == macro.param_token_count # 0
    IN  IF f.macro_index = other_macro_index
        THEN MxError(m, TRUE)          \* "macro expansion references itself!"
        ELSE MxCall(m, "body_wait",
                    NewFrame(other_macro_index, f.out,
                             TokensPack(next_token_index + macro.first_body_token,
                                        IF next_token_index < macro.body_token_count
                                        THEN macro.body_token_count - next_token_index
                                        ELSE 0,
                                        f.macro_index),
                             ParentPack(
                                 IF func_like
                                 THEN [ p \in 1..macro.param_token_count |->
                                          tokens[macro.first_param_token + p] ]
                                 ELSE << >>,
                                 IF func_like THEN f.params_provided ELSE << >>)),
                    FALSE)


\* The macro an identifier token names: its index, or -1.
MacroNamed(macros, tok) ==
    IF tok.m_type = "identifier" /\ tok.m_string \in AllNames
    THEN macro_find_index(macros, HashTable[tok.m_string])
    ELSE -1

\* expand_macro_and_append up to its first loop.
MxEnter(m, macros, tokens) ==
    LET k     == Len(m.stack)
        f     == m.stack[k]
        macro == macros[f.macro_index + 1]
    IN  IF macro.va_args_macro \/ macro.param_token_count # 0
        THEN LET r == pack_next_token(f.pack, m.lx, tokens)
             IN  IF ~r.ok \/ ~is_punctuation_token(r.tok, punct_open_parentheses)
                 THEN MxError([ m EXCEPT !.lx = r.lx ], FALSE)
                 ELSE [ m EXCEPT !.lx = r.lx,
                                 !.stack[k].pack = r.pack,
                                 !.stack[k].tok = r.tok,
                                 !.stack[k].parentheses_count = 1,
                                 !.stack[k].pc = "args" ]
        ELSE IF macro_is_builtin(macro)
        THEN MxReturn(MxAppend(m, << << "builtin" >> >>))      \* macro_expand_builtin
        ELSE LET r1 == pack_next_token(f.pack, m.lx, tokens)
                 r2 == pack_next_token(r1.pack, r1.lx, tokens)
             IN  IF macro.empty_func_like_macro
                    /\ (~r1.ok \/ ~is_punctuation_token(r1.tok, punct_open_parentheses))
                 THEN MxError([ m EXCEPT !.lx = r1.lx ], FALSE)
                 ELSE IF macro.empty_func_like_macro
                    /\ (~r2.ok \/ ~is_punctuation_token(r2.tok, punct_close_parentheses))
                 THEN MxError([ m EXCEPT !.lx = r2.lx ], FALSE)
                 ELSE IF bad_body_ends(macro, tokens, FALSE)
                 THEN MxError([ m EXCEPT !.lx = IF macro.empty_func_like_macro
                                                THEN r2.lx ELSE m.lx ], FALSE)
                 ELSE IF macro.empty_func_like_macro
                 THEN [ m EXCEPT !.lx = r2.lx, !.stack[k].pack = r2.pack,
                                 !.stack[k].tok = r2.tok, !.stack[k].pc = "body" ]
                 ELSE [ m EXCEPT !.stack[k].pc = "body" ]

\* The argument that current_param_text holds, as the token pushed to params_provided.
ParamToken(text) == Tok(Flatten(text), "identifier", 0)

\* One iteration of the loop that collects the arguments.
MxArgs(m, macros, tokens) ==
    LET k  == Len(m.stack)
        f  == m.stack[k]
        r  == pack_next_token(f.pack, m.lx, tokens)
        m1 == [ m EXCEPT !.lx = r.lx, !.stack[k].pack = r.pack ]
        opens  == is_punctuation_token(r.tok, punct_open_parentheses)
        closes == is_punctuation_token(r.tok, punct_close_parentheses)
        count  == IF opens THEN f.parentheses_count + 1
                  ELSE IF closes THEN f.parentheses_count - 1
                  ELSE f.parentheses_count
        m2 == [ m1 EXCEPT !.stack[k].tok = r.tok, !.stack[k].parentheses_count = count ]
        other_index == MacroNamed(macros, r.tok)
        p  == IF f.parent.null THEN 0 ELSE find_param(f.parent, r.tok)
        \* the token lies in the body of the macro it names
        in_own_body == f.pack.kind = "tokens" /\ f.pack.owner = other_index
    IN  IF ~r.ok THEN [ m1 EXCEPT !.stack[k].pc = "close" ]
        ELSE IF closes /\ count <= 0 THEN [ m2 EXCEPT !.stack[k].pc = "close" ]
        ELSE IF f.expect_comma /\ is_punctuation_token(r.tok, punct_comma)
        THEN [ m2 EXCEPT !.stack[k].tok = empty_token,   \* moved into params_provided
                         !.stack[k].params_provided =
                              Append(@, ParamToken(f.current_param_text)),
                         !.stack[k].current_param_text = << >>,
                         !.stack[k].expect_comma = FALSE ]
        ELSE IF other_index >= 0
        THEN IF f.macro_index = other_index
             THEN MxError(m2, in_own_body)     \* "macro parameter references itself!"
             ELSE MxCall(m2, "args_wait",
                         NewFrame(other_index, k, ScriptPack, f.parent),
                         in_own_body)
        ELSE IF r.tok.m_type = "identifier" /\ p > 0
        THEN [ m2 EXCEPT !.stack[k].current_param_text =
                              Append(@, f.parent.provided[p].m_string),
                         !.stack[k].expect_comma = TRUE ]
        ELSE [ m2 EXCEPT !.stack[k].current_param_text = Append(@, r.tok.m_string),
                         !.stack[k].expect_comma = TRUE ]

\* From the end of that loop to the start of the loop over the body.
MxClose(m, macros, tokens) ==
    LET k     == Len(m.stack)
        f     == m.stack[k]
        macro == macros[f.macro_index + 1]
        provided == IF f.current_param_text # << >>
                    THEN Append(f.params_provided, ParamToken(f.current_param_text))
                    ELSE f.params_provided
    IN  IF ~is_punctuation_token(f.tok, punct_close_parentheses) THEN MxError(m, FALSE)
        ELSE IF ~f.expect_comma THEN MxError(m, FALSE)
        ELSE IF Len(provided) # macro.param_token_count
                /\ ~(macro.va_args_macro /\ Len(provided) > macro.param_token_count)
        THEN MxError(m, FALSE)
        ELSE IF bad_body_ends(macro, tokens, TRUE) THEN MxError(m, FALSE)
        ELSE [ m EXCEPT !.stack[k].params_provided = provided,
                        !.stack[k].current_param_text = << >>,
                        !.stack[k].tok = empty_token,
                        !.stack[k].pc = "body" ]

\* One iteration of the loop over the body (of either kind of macro), or the
\* return of the call when the body is exhausted.
MxBody(m, macros, tokens) ==
    LET k     == Len(m.stack)
        f     == m.stack[k]
        macro == macros[f.macro_index + 1]
        body_token  == tokens[f.b + macro.first_body_token + 1]
        other_index == MacroNamed(macros, body_token)
        params == { p \in 1..macro.param_token_count :
                      /\ body_token.m_type = "identifier"
                      /\ body_token.m_string = tokens[p + macro.first_param_token].m_string }
        next   == [ m EXCEPT !.stack[k].b = @ + 1 ]
    IN  IF f.b >= macro.body_token_count THEN MxReturn(m)
        ELSE IF macro.param_token_count # 0
                /\ (\/ is_punctuation_token(body_token, punct_preprocessor)
                    \/ is_punctuation_token(body_token, punct_preprocessor_merge))
        THEN next
        ELSE IF other_index >= 0
        THEN expand_recursive_macro_and_append(m, macros, tokens, other_index)
        ELSE IF params # {}
        THEN MxAppend(next, << f.params_provided[CHOOSE p \in params :
                                                   \A q \in params : p <= q].m_string >>)
        ELSE MxAppend(next, << body_token.m_string >>)

\* The step the call on top of the stack takes next.
expand_macro_and_append(m, macros, tokens) ==
    LET pc == m.stack[Len(m.stack)].pc
    IN  CASE pc = "enter" -> MxEnter(m, macros, tokens)
          [] pc = "args"  -> MxArgs(m, macros, tokens)
          [] pc = "close" -> MxClose(m, macros, tokens)
          [] pc = "body"  -> MxBody(m, macros, tokens)


(***************************************************************************)
(* A run with macros: up to MaxDefs #define lines, then a text that uses   *)
(* the macros.  MxScan is an iteration of the main loop of preprocess()    *)
(* outside any conditional, MxStep a step of the expansion it started.     *)
(***************************************************************************)
Line(name, has_list, params, body) ==
    [ name |-> name, has_list |-> has_list, params |-> params, body |-> body ]

MacroLines ==
    { Line(NameX, FALSE, << >>, << IdTok(NameX) >>),                    \* #define X X
      Line(NameX, FALSE, << >>, << NumberOne >>),                       \* #define X 1
      Line(NameX, FALSE, << >>,                                         \* #define X G(X)
           << IdTok(NameG), OpenParen, IdTok(NameX), CloseParen >>),
      Line(NameG, TRUE, << IdTok(NameP) >>, << IdTok(NameP) >>),        \* #define G(P) P
      Line(NameG, TRUE, << IdTok(NameP) >>,                             \* #define G(P) G(P)
           << IdTok(NameG), OpenParen, IdTok(NameP), CloseParen >>),
      Line(NameA, FALSE, << >>, << IdTok(NameB) >>),                    \* #define A B
      Line(NameB, FALSE, << >>, << IdTok(NameA) >>),                    \* #define B A
      Line(NameA, TRUE, << >>, << NumberOne >>) }                       \* #define A() 1

SrcId(name) == Src(name, "identifier", 0, 0)
SrcOpen     == Src(<< "(" >>, "punctuation", punct_open_parentheses, 0)
SrcClose    == Src(<< ")" >>, "punctuation", punct_close_parentheses, 0)
SrcOne      == Src(<< "1" >>, "number", flag_integer + flag_signed_integer + flag_decimal, 0)

MacroScripts ==
    { << SrcId(NameX) >>,
      << SrcId(NameA) >>,
      << SrcId(NameA), SrcOpen, SrcClose >>,
      << SrcId(NameG), SrcOpen, SrcOne, SrcClose >>,
      << SrcId(NameG), SrcOpen, SrcId(NameX), SrcClose >>,
      << SrcId(NameFILE), SrcOne >> }

InitMacro ==
    /\ PPIdle
    /\ ExtIdle
    /\ pp_state = "off"
    /\ m_macros = macro_define_builtins(<< >>)
    /\ m_macro_tokens = << >>
    /\ call_stack = << >>
    /\ mx_state = "define"
    /\ mx_selfref = FALSE
    /\ script \in MacroScripts
    /\ m_script_ptr = 0
    /\ m_last_script_ptr = 0
    /\ m_line_num = 1
    /\ m_last_line_num = 1
    /\ m_token_available = FALSE
    /\ m_leftover_token = empty_token
    /\ m_error_count = 0
    /\ m_warn_count = 0
    /\ hist = << >>
    /\ m_flags = {}
    /\ reports = NoReports

UserMacros == Len(m_macros) - Len(macro_define_builtins(<< >>))

\* A #define line is resolved.
MxDefine ==
    \E l \in MacroLines :
        LET tab == collect_macro([ macros |-> m_macros, tokens |-> m_macro_tokens ],
                                 l.name, l.has_list, l.params, l.body)
        IN  /\ mx_state = "define"
            /\ UserMacros < MaxDefs
            /\ Len(tab.tokens) <= MaxTokens
            /\ m_macros' = tab.macros
            /\ m_macro_tokens' = tab.tokens
            /\ UNCHANGED << pp_vars, mx_vars, lex_vars, ext_vars >>

\* The main loop reads a token of the text: the end of the script, an identifier
\* that names a macro, or a token that goes to the output.
MxScan ==
    LET r           == next_token(Lex)
        macro_index == MacroNamed(m_macros, r.tok)
    IN  /\ mx_state \in { "define", "scanning" }
        /\ SetLex(r.lx)
        /\ IF ~r.ok
           THEN /\ mx_state' = "returned_true"
                /\ UNCHANGED << call_stack, mx_selfref, out_text_buffer >>
           ELSE IF macro_index >= 0
           THEN /\ mx_state' = "expanding"
                /\ call_stack' = << NewFrame(macro_index, 0, ScriptPack, NullParent) >>
                /\ mx_selfref' = FALSE
                /\ UNCHANGED out_text_buffer
           ELSE /\ mx_state' = "scanning"
                /\ out_text_buffer' = Append(out_text_buffer, r.tok.m_string)
                /\ UNCHANGED << call_stack, mx_selfref >>
        /\ UNCHANGED << m_cond_stack, m_skipping_conditional, m_include_stack,
                        m_dynamic_scripts, m_current_script, pp_state, chains, last,
                        tab_vars, hist, m_flags, reports, ext_vars >>

\* The expansion in progress takes its next step.
MxStep ==
    LET o == expand_macro_and_append(
                 Mx(call_stack, Lex, out_text_buffer, "expanding", FALSE),
                 m_macros, m_macro_tokens)
    IN  /\ mx_state = "expanding"
        /\ call_stack' = o.stack
        /\ SetLex(o.lx)
        /\ out_text_buffer' = o.out
        /\ mx_state' = o.status
        /\ mx_selfref' = (mx_selfref \/ o.selfref)
        /\ UNCHANGED << m_cond_stack, m_skipping_conditional, m_include_stack,
                        m_dynamic_scripts, m_current_script, pp_state, chains, last,
                        tab_vars, hist, m_flags, reports, ext_vars >>

NextMacro == MxDefine \/ MxScan \/ MxStep

SpecMacro == InitMacro /\ [][NextMacro]_vars

(***************************************************************************)
(* Claims about macro expansion.                                           *)
(***************************************************************************)
\* C6: an expansion that reads, in the body of a macro, a reference to that
\* macro ends with an error: preprocess() returns false; the expansion neither
\* completes nor uses up the call stack.
C6_SelfReferenceIsError ==
    mx_selfref => mx_state \in { "expanding", "returned_false" }

\* A reference met by the loop over the body itself (not among the arguments of
\* a macro called in the body) is reported at once.
C6_DirectReferenceIsError ==
    [][ (mx_selfref' /\ ~mx_selfref /\ mx_state = "expanding"
           /\ call_stack[Len(call_stack)].pc = "body")
        => mx_state' = "returned_false" ]_vars

\* A call of expand_macro_and_append is entered with the arguments of a call
\* that is still in progress below it on the call stack, while the macro tables
\* are what they were and both calls read stored tokens, not the script: the
\* new call does what the old one did, so neither ever returns.
Reentered ==
    \E i \in 1..Len(call_stack) :
        LET top == call_stack[Len(call_stack)]
            f   == call_stack[i]
        IN  /\ i < Len(call_stack)
            /\ top.pc = "enter"
            /\ top.pack.kind = "tokens"
            /\ f.macro_index = top.macro_index
            /\ f.pack = top.pack
            /\ f.parent = top.parent
            /\ f.out = top.out
            /\ f.params_provided = << >>

\* C28: macro expansion terminates for every macro table and every finite
\* input, finishing with output or stopping with an error, also when macros
\* refer to each other in a cycle: no call of the expansion is entered again
\* with the arguments of a call in progress.
C28_ExpansionTerminates == ~Reentered

(***************************************************************************)
(* Claims about the pushback slot and the operations above next_token.     *)
(***************************************************************************)
\* The k-th newest call in hist (0 is the newest).
H(k) == hist[Len(hist) - k]

PeekOps  == { "peek_token_string", "peek_token_type" }
CheckOps == { "check_token_string", "check_token_type" }

\* The token passed to the unget_token call H(k) is the source token that ends at
\* the read position of that moment.
UngotAtPosition(k) ==
    /\ H(k).ptr >= 1
    /\ H(k).tok = SourceTok(script, H(k).ptr)

\* C7: the next_token that follows unget_token(t) returns t, does not move the
\* read position and leaves the slot empty; when t is the source token that ends
\* at the read position, the next_token after that returns the source token that
\* follows t (or fails when t is the last one).
C7_UngetThenNextToken ==
    /\ (Len(hist) >= 2 /\ H(0).op = "next_token" /\ H(1).op = "unget_token")
          => /\ H(0).read
             /\ H(0).tok = H(1).tok
             /\ m_script_ptr = H(0).ptr
             /\ ~m_token_available
    /\ (Len(hist) >= 3 /\ H(0).op = "next_token" /\ H(1).op = "next_token"
          /\ H(2).op = "unget_token" /\ UngotAtPosition(2))
          => IF H(2).ptr < Len(script)
             THEN H(0).read /\ H(0).tok = SourceTok(script, H(2).ptr + 1)
             ELSE ~H(0).read

\* unget_token(t) with t the token just scanned, then two next_token calls: the
\* second has scanned the token after t.
C7_Witness ==
    /\ Len(hist) = 3
    /\ H(2).op = "unget_token" /\ UngotAtPosition(2)
    /\ H(1).op = "next_token" /\ H(1).tok = H(2).tok
    /\ H(0).op = "next_token" /\ H(0).read
    /\ H(0).tok = SourceTok(script, H(2).ptr + 1)

\* C8: the next_token that follows a peek_token_string or peek_token_type call,
\* or a check_token_string or check_token_type call that returned false, returns
\* the token that call examined, with the same line number.
C8_RewindGivesExaminedToken ==
    (Len(hist) >= 2 /\ H(0).op = "next_token" /\ H(1).read
       /\ \/ H(1).op \in PeekOps
          \/ H(1).op \in CheckOps /\ ~H(1).ret)
    => (H(0).read /\ H(0).tok = H(1).tok)

\* The same when the examined token was scanned from the buffer (the pushback
\* slot was empty when peek_ or check_ was called).
C8_RewindAfterScan ==
    (Len(hist) >= 2 /\ H(0).op = "next_token" /\ H(1).read
       /\ H(1).ptr < Len(script) /\ H(1).tok = SourceTok(script, H(1).ptr + 1)
       /\ (Len(hist) = 3 => H(2).op # "unget_token")
       /\ \/ H(1).op \in PeekOps
          \/ H(1).op \in CheckOps /\ ~H(1).ret)
    => (H(0).read /\ H(0).tok = H(1).tok)

\* C9: an unget_token that directly follows another one raises a warning and
\* leaves its own token in the slot; the next_token after the two returns the
\* second token and empties the slot.
C9_SecondUngetOverwrites ==
    /\ (Len(hist) >= 2 /\ H(0).op = "unget_token" /\ H(1).op = "unget_token")
          => /\ H(0).report = "warning"
             /\ m_token_available
             /\ m_leftover_token = H(0).tok
    /\ (Len(hist) >= 3 /\ H(0).op = "next_token" /\ H(1).op = "unget_token"
          /\ H(2).op = "unget_token")
          => /\ H(0).read
             /\ H(0).tok = H(1).tok
             /\ ~m_token_available

\* Two different tokens were pushed back in a row and next_token gave the second.
C9_Witness ==
    /\ Len(hist) = 3
    /\ H(2).op = "unget_token" /\ H(1).op = "unget_token" /\ H(0).op = "next_token"
    /\ H(2).tok # H(1).tok
    /\ H(0).tok = H(1).tok
    /\ m_warn_count >= 1

\* What expect_token_type compares: the type, and the subtype of numbers and
\* punctuations.
TypeMatches(tok, a) ==
    /\ tok.m_type = a[1]
    /\ tok.m_type = "number" => BitAnd(tok.m_flags, a[2]) = a[2]
    /\ tok.m_type = "punctuation" => tok.m_flags = a[2]

\* C10: expect_token_char(c) reports an error and returns false when the token
\* read is not exactly the character c; expect_token_string and
\* expect_token_type do so when the text, the type or the subtype differs.
C10_ExpectFailsOnMismatch ==
    LET failed == ~H(0).ret /\ H(0).report = "error"
    IN  (Len(hist) >= 1 /\ H(0).read) =>
          /\ (H(0).op = "expect_token_char" /\ ~token_eq_char(H(0).tok, H(0).arg[1])) => failed
          /\ (H(0).op = "expect_token_string" /\ H(0).tok.m_string # H(0).arg) => failed
          /\ (H(0).op = "expect_token_type" /\ ~TypeMatches(H(0).tok, H(0).arg)) => failed

\* The same for expect_token_string and expect_token_type alone.
C10_StringAndTypeFail ==
    LET failed == ~H(0).ret /\ H(0).report = "error"
    IN  (Len(hist) >= 1 /\ H(0).read) =>
          /\ (H(0).op = "expect_token_string" /\ H(0).tok.m_string # H(0).arg) => failed
          /\ (H(0).op = "expect_token_type" /\ ~TypeMatches(H(0).tok, H(0).arg)) => failed

(***************************************************************************)
(* The punctuation tables: set_punctuation_tables on an array, then        *)
(* internal_read_punctuation at a position of a script.  The arrays are    *)
(* the default C/C++ one and the arrays of at most MaxPunct entries over   *)
(* PunctPool; an entry's id is its index, as in default_punctuations.      *)
(***************************************************************************)
MaxPunct == 3   \* entries of a punctuation array other than the default one

DefaultStrings ==
    << nullptr, << "=" >>, << "+" >>, << "-" >>, << "*" >>, << "/" >>, << "%" >>,
       << ">", ">" >>, << "<", "<" >>, << "+", "=" >>, << "-", "=" >>, << "*", "=" >>,
       << "/", "=" >>, << "%", "=" >>, << ">", ">", "=" >>, << "<", "<", "=" >>,
       << "&", "&" >>, << "|", "|" >>, << "!" >>, << "=", "=" >>, << "!", "=" >>,
       << ">" >>, << "<" >>, << ">", "=" >>, << "<", "=" >>, << "+", "+" >>,
       << "-", "-" >>, << "&" >>, << "|" >>, << "^" >>, << "~" >>, << "&", "=" >>,
       << "|", "=" >>, << "^", "=" >>, << "." >>, << "-", ">" >>, << ":", ":" >>,
       << ".", "*" >>, << "," >>, << ";" >>, << ":" >>, << "?" >>, << ".", ".", "." >>,
       << "\\" >>, << "(" >>, << ")" >>, << "[" >>, << "]" >>, << "{" >>, << "}" >>,
       << "#" >>, << "#", "#" >>, << "$" >> >>

default_punctuations ==
    [ i \in 0..(default_punctuations_size - 1) |-> punctuation_def(DefaultStrings[i + 1], i) ]

PunctPool ==
    { nullptr, << >>, << "<" >>, << "=" >>, << "<", "<" >>, << "<", "=" >>,
      << "=", "=" >>, << "<", "<", "=" >> }

PunctArrays ==
    { [ i \in DOMAIN f |-> punctuation_def(f[i], i) ] :
        f \in UNION { [ 0..(n - 1) -> PunctPool ] : n \in 1..MaxPunct } }

PunctStrings(punctuations) ==
    { punctuations[i].str : i \in DOMAIN punctuations } \ { nullptr }

\* The scripts read: each punctuation of the table, alone and before one more character.
PunctScripts(punctuations) ==
    { p \o q : p \in PunctStrings(punctuations), q \in { << >>, << "=" >>, << "<" >> } }
        \ { << >> }

lexer_vars_frame == << pp_vars, tab_vars, mx_vars, lex_vars, files, table_obs, more_vars >>

InitPunct ==
    /\ PPIdle /\ ExtIdle /\ MacroIdle /\ LexIdle
    /\ pp_state = "off"
    /\ m_macros = << >>
    /\ m_macro_tokens = << >>

\* set_punctuation_tables refills both tables, whatever they held.
SetPunctuationTables ==
    /\ m_punctuations = << >>
    /\ \E a \in PunctArrays \cup { default_punctuations } :
         \E t \in { set_punctuation_tables(a) } :
            /\ m_punctuations' = a
            /\ m_punctuations_table' = t.table
            /\ m_punctuations_next' = t.next
    /\ UNCHANGED << punct_script, punct_result, lexer_vars_frame >>

ReadPunctuation ==
    /\ m_punctuations # << >>
    /\ \E sc \in PunctScripts(m_punctuations) :
         \E r \in { internal_read_punctuation(m_punctuations, m_punctuations_table,
                                              m_punctuations_next, sc) } :
            /\ punct_script' = sc
            /\ punct_result' = [ called |-> TRUE, ok |-> r.ok, tok |-> r.tok,
                                 consumed |-> r.consumed ]
    /\ UNCHANGED << m_punctuations, m_punctuations_table, m_punctuations_next,
                    lexer_vars_frame >>

NextPunct == SetPunctuationTables \/ ReadPunctuation

SpecPunct == InitPunct /\ [][NextPunct]_vars

(***************************************************************************)
(* Claims about the punctuation tables.                                    *)
(***************************************************************************)
IsPrefix(p, s) == Len(p) <= Len(s) /\ SubSeq(s, 1, Len(p)) = p

Entries == { i \in DOMAIN m_punctuations : m_punctuations[i].str # nullptr }

\* The chain from n on, as the sequence of its indexes; a chain that does not
\* end within the size of the array is cut one entry after it.
RECURSIVE ChainFrom(_, _)
ChainFrom(n, fuel) ==
    IF n < 0 \/ fuel = 0 THEN << >>
    ELSE << n >> \o ChainFrom(m_punctuations_next[n], fuel - 1)

Chain(c) == ChainFrom(m_punctuations_table[c], Cardinality(DOMAIN m_punctuations) + 1)

PrefixPairs ==
    { pr \in Entries \X Entries :
        /\ Len(m_punctuations[pr[1]].str) < Len(m_punctuations[pr[2]].str)
        /\ IsPrefix(m_punctuations[pr[1]].str, m_punctuations[pr[2]].str)
        /\ IsPrefix(m_punctuations[pr[2]].str, punct_script) }

Matching == { i \in Entries : IsPrefix(m_punctuations[i].str, punct_script) }

\* C11 as stated: when the script starts with the longer of two punctuations of
\* which one is a prefix of the other, the scanner returns that longer one.
C11_ReturnsTheLonger ==
    punct_result.called =>
        \A pr \in PrefixPairs :
            /\ punct_result.ok
            /\ punct_result.tok.m_string = m_punctuations[pr[2]].str

\* C11 (amended): when the script starts with the longer of two punctuations of
\* which one is a prefix of the other, the scanner returns the longest punctuation
\* of the table that the script starts with, and consumes its characters: the
\* longer of the two unless a still longer one matches, and never the shorter.
C11_LongestMatch ==
    (punct_result.called /\ PrefixPairs # {}) =>
        /\ punct_result.ok
        /\ \E k \in Matching :
              /\ punct_result.tok.m_string = m_punctuations[k].str
              /\ punct_result.tok.m_flags = m_punctuations[k].id
              /\ punct_result.tok.m_type = "punctuation"
              /\ punct_result.consumed = Len(m_punctuations[k].str)
              /\ \A j \in Matching :
                    Len(m_punctuations[j].str) <= Len(m_punctuations[k].str)
        /\ \A pr \in PrefixPairs :
              punct_result.tok.m_string # m_punctuations[pr[1]].str

\* The default table, the script "<<=": "<" and "<<" both match, "<<=" is returned.
C11_Witness ==
    /\ m_punctuations = default_punctuations
    /\ punct_script = << "<", "<", "=" >>
    /\ punct_result.called /\ punct_result.ok
    /\ PrefixPairs # {}
    /\ punct_result.tok.m_string = << "<", "<", "=" >>

\* C12: after set_punctuation_tables, the chain headed at each character holds
\* exactly the entries whose string starts with it, each once, by decreasing
\* length and, within one length, in the order of the array.
C12_ChainsSortedByLength ==
    m_punctuations # << >> =>
        \A c \in PunctChars :
            LET ch == Chain(c)
            IN  /\ { ch[k] : k \in 1..Len(ch) }
                      = { i \in Entries : CharAt(m_punctuations[i].str, 0) = c }
                /\ \A k, l \in 1..Len(ch) : k # l => ch[k] # ch[l]
                /\ \A k \in 1..(Len(ch) - 1) :
                      \/ Len(m_punctuations[ch[k]].str) > Len(m_punctuations[ch[k + 1]].str)
                      \/ /\ Len(m_punctuations[ch[k]].str) = Len(m_punctuations[ch[k + 1]].str)
                         /\ ch[k] < ch[k + 1]

\* An array that lists "<" before "<<" and "<=": the chain of "<" is reordered
\* by length and keeps the two of length 2 in the order of the array.
C12_Witness ==
    /\ m_punctuations # << >>
    /\ Cardinality(DOMAIN m_punctuations) = 3
    /\ m_punctuations[0].str = << "<" >>
    /\ m_punctuations[1].str = << "<", "<" >>
    /\ m_punctuations[2].str = << "<", "=" >>
    /\ Chain("<") = << 1, 2, 0 >>

(***************************************************************************)
(* Error and warning reports: one lexer with any of the flags no_errors,   *)
(* no_warnings and no_fatal_errors, the calls that report (expect_token_*, *)
(* a second unget_token, preprocessor::error and preprocessor::warning on  *)
(* this lexer as the current script) and reset().                          *)
(***************************************************************************)
ReportFlags == { "no_errors", "no_warnings", "no_fatal_errors" }

\* preprocessor::error and preprocessor::warning: handed to the current script,
\* dropped when there is none.
preprocessor_error(has_script, lx)   == IF has_script THEN lexer_error(lx) ELSE lx
preprocessor_warning(has_script, lx) == IF has_script THEN lexer_warning(lx) ELSE lx

InitReport ==
    /\ PPIdle /\ ExtIdle /\ MacroIdle
    /\ pp_state = "off"
    /\ m_macros = << >>
    /\ m_macro_tokens = << >>
    /\ script = LexSource
    /\ m_script_ptr = 0
    /\ m_last_script_ptr = 0
    /\ m_line_num = 1
    /\ m_last_line_num = 1
    /\ m_token_available = FALSE
    /\ m_leftover_token = empty_token
    /\ m_error_count = 0
    /\ m_warn_count = 0
    /\ hist = << >>
    /\ m_flags \in SUBSET ReportFlags
    /\ reports = NoReports

\* A call that leaves the lexer as lx.
Quiet(lx) ==
    /\ lx.reports.errors <= MaxReports + 1
    /\ lx.reports.warnings <= MaxReports + 1
    /\ SetLex(lx)
    /\ UNCHANGED << hist, pp_vars, tab_vars, mx_vars, ext_vars >>

ReportNextToken   == Quiet(next_token(Lex).lx)
ReportUngetToken  == \E t \in UngetTokens : Quiet(unget_token(Lex, t))
ReportExpectChar  == \E c \in Chars : Quiet(expect_token_char(Lex, c).lx)
ReportExpectString == \E str \in Strings : Quiet(expect_token_string(Lex, str).lx)
ReportExpectType  == \E a \in TypeArgs : Quiet(expect_token_type(Lex, a[1], a[2]).lx)
PreprocessorError == \E has_script \in BOOLEAN : Quiet(preprocessor_error(has_script, Lex))
PreprocessorWarning == \E has_script \in BOOLEAN : Quiet(preprocessor_warning(has_script, Lex))
Reset             == Quiet(lexer_reset(Lex))

NextReport == \/ ReportNextToken \/ ReportUngetToken
              \/ ReportExpectChar \/ ReportExpectString \/ ReportExpectType
              \/ PreprocessorError \/ PreprocessorWarning \/ Reset

SpecReport == InitReport /\ [][NextReport]_vars

(***************************************************************************)
(* Claims about the error and warning counters.                            *)
(***************************************************************************)
\* C13: over any sequence of scanner operations the error count never decreases,
\* and neither does the warning count.
C13_CountersNeverDecrease ==
    [][ m_error_count' >= m_error_count /\ m_warn_count' >= m_warn_count ]_vars

\* C13, as amended: the counters never decrease over the operations other than
\* reset(): a step that lowers a counter is a reset(), which sets both
\* counters to 0, reports nothing and puts the lexer back at the start.
C13_OnlyResetLowers ==
    [][ (m_error_count' < m_error_count \/ m_warn_count' < m_warn_count)
            => /\ m_error_count' = 0 /\ m_warn_count' = 0
               /\ m_script_ptr' = 0 /\ ~m_token_available'
               /\ reports' = reports ]_vars

\* After an error, a reset() and another error: the counter is at one again.
C13_Witness ==
    reports.errors = 2 /\ m_error_count = 1 /\ m_script_ptr > 0

\* C14: each call of error() adds one to the error count and each call of
\* warning() one to the warning count, whatever flags are set; no_errors and
\* no_warnings only keep the message from the callbacks, no_fatal_errors only
\* keeps it from being fatal.
C14_EveryReportCounted ==
    [][ /\ reports'.errors = reports.errors + 1
            => /\ m_error_count' = m_error_count + 1
               /\ reports'.printed - reports.printed
                     = (IF "no_errors" \in m_flags THEN 0 ELSE 1)
               /\ reports'.fatal - reports.fatal
                     = (IF m_flags \cap { "no_errors", "no_fatal_errors" } = {} THEN 1 ELSE 0)
        /\ reports'.warnings = reports.warnings + 1
            => /\ m_warn_count' = m_warn_count + 1
               /\ reports'.printed - reports.printed
                     = (IF "no_warnings" \in m_flags THEN 0 ELSE 1)
               /\ reports'.fatal = reports.fatal ]_vars

\* With every flag set, an error and a warning were reported: both are counted
\* and nothing went to the callbacks.
C14_Witness ==
    /\ m_flags = ReportFlags
    /\ reports.errors = 1 /\ reports.warnings = 1
    /\ m_error_count = 1 /\ m_warn_count = 1
    /\ reports.printed = 0 /\ reports.fatal = 0

(***************************************************************************)
(* Included files.  The preprocessor runs over a main script and the files *)
(* it includes; a script is a sequence of items: a text token, an          *)
(* #include "file" line or a #pragma once line.  The main script is read   *)
(* by the lexer of the variables script and m_script_ptr; each entry of    *)
(* m_dynamic_scripts is the lexer try_open_include_file created:           *)
(*   filename, script, ptr    the file, its items, the items read          *)
(*   loaded                   free_script_source() was not called on it    *)
(*   parent, resume           observation: the script that included it and *)
(*                            that script's position after the #include    *)
(*   acted                    observation: the items other than            *)
(*                            #pragma once the main loop took from it      *)
(* m_include_stack and m_current_script hold script ids: 0 is the main     *)
(* script, k the k-th entry of m_dynamic_scripts.                          *)
(***************************************************************************)
MaxMain == 3    \* items of the main script

Text(s)        == [ kind |-> "text", arg |-> s ]
IncludeLine(f) == [ kind |-> "include", arg |-> f ]
PragmaOnce     == [ kind |-> "pragma", arg |-> "once" ]

MainItems == { IncludeLine("a.h"), IncludeLine("b.h"), IncludeLine("c.h"), Text("m") }

MainScripts == UNION { [ 1..n -> MainItems ] : n \in 1..MaxMain }

\* c.h does not exist.
FilesA == { << PragmaOnce, Text("x") >>,
            << Text("x"), PragmaOnce, Text("z") >>,
            << Text("x") >>,
            << PragmaOnce, IncludeLine("b.h"), Text("x") >>,
            << PragmaOnce, IncludeLine("a.h"), Text("x") >> }
FilesB == { << Text("y") >>,
            << IncludeLine("a.h"), Text("y") >>,
            << PragmaOnce, Text("y") >> }

FileNames == { "a.h", "b.h" }

IncState ==
    [ stack |-> m_include_stack, dyn |-> m_dynamic_scripts, cur |-> m_current_script,
      main_ptr |-> m_script_ptr ]

ScriptOf(inc, id)   == IF id = 0 THEN script ELSE inc.dyn[id].script
PtrOf(inc, id)      == IF id = 0 THEN inc.main_ptr ELSE inc.dyn[id].ptr
FilenameOf(inc, id) == IF id = 0 THEN "(memory)" ELSE inc.dyn[id].filename

\* next_token on the current script fails: its items are read, or its source was freed.
AtEnd(inc) ==
    \/ inc.cur # 0 /\ ~inc.dyn[inc.cur].loaded
    \/ PtrOf(inc, inc.cur) >= Len(ScriptOf(inc, inc.cur))

CurrentItem(inc) == ScriptOf(inc, inc.cur)[PtrOf(inc, inc.cur) + 1]

\* next_token on the current script hands out an item.
take_item(inc) ==
    IF inc.cur = 0 THEN [ inc EXCEPT !.main_ptr = @ + 1 ]
    ELSE [ inc EXCEPT !.dyn[inc.cur].ptr = @ + 1, !.dyn[inc.cur].acted = @ + 1 ]

\* #pragma once is not counted in acted.
take_pragma(inc) ==
    IF inc.cur = 0 THEN [ inc EXCEPT !.main_ptr = @ + 1 ]
    ELSE [ inc EXCEPT !.dyn[inc.cur].ptr = @ + 1 ]

\* The end-of-script branch of preprocess(), with scripts on the include stack.
restore_previous_script(inc) ==
    [ inc EXCEPT !.cur = inc.stack[Len(inc.stack)],
                 !.stack = SubSeq(inc.stack, 1, Len(inc.stack) - 1),
                 !.dyn[Len(inc.dyn)].loaded = FALSE ]

\* try_open_include_file on a file that init_from_file can open.
push_include_file(inc, fs, filename) ==
    [ inc EXCEPT !.stack = Append(inc.stack, inc.cur),
                 !.dyn = Append(inc.dyn,
                                [ filename |-> filename, script |-> fs[filename],
                                  ptr |-> 0, loaded |-> TRUE,
                                  parent |-> inc.cur, resume |-> PtrOf(inc, inc.cur),
                                  acted |-> 0 ]),
                 !.cur = Len(inc.dyn) + 1 ]

\* resolve_pragma_directive, for #pragma once.
resolve_pragma_directive(inc) ==
    LET include_count ==
            Cardinality({ k \in 1..Len(inc.dyn) :
                            inc.dyn[k].filename = FilenameOf(inc, inc.cur) })
    IN  IF include_count > 1
        THEN [ inc EXCEPT !.cur = inc.stack[Len(inc.stack)],
                          !.stack = SubSeq(inc.stack, 1, Len(inc.stack) - 1) ]
        ELSE inc

SetInc(inc) ==
    /\ m_include_stack' = inc.stack
    /\ m_dynamic_scripts' = inc.dyn
    /\ m_current_script' = inc.cur
    /\ m_script_ptr' = inc.main_ptr

include_frame == << m_cond_stack, m_skipping_conditional, chains, last, tab_vars, mx_vars,
                    script, m_last_script_ptr, m_line_num, m_last_line_num,
                    m_token_available, m_leftover_token, m_error_count, m_warn_count,
                    hist, m_flags, reports, punct_vars, table_obs, more_vars >>

InitInclude ==
    /\ PPIdle /\ PunctIdle /\ TableIdle /\ MoreIdle /\ MacroIdle
    /\ pp_state = "running"
    /\ m_macros = macro_define_builtins(<< >>)
    /\ m_macro_tokens = << >>
    /\ script \in MainScripts
    /\ files \in [ FileNames -> FilesA \cup FilesB ]
    /\ files["a.h"] \in FilesA
    /\ files["b.h"] \in FilesB
    /\ m_script_ptr = 0
    /\ m_last_script_ptr = 0
    /\ m_line_num = 1
    /\ m_last_line_num = 1
    /\ m_token_available = FALSE
    /\ m_leftover_token = empty_token
    /\ m_error_count = 0
    /\ m_warn_count = 0
    /\ hist = << >>
    /\ m_flags = {}
    /\ reports = NoReports

\* The current script is at its end.
EndOfFile ==
    /\ pp_state = "running"
    /\ AtEnd(IncState)
    /\ IF m_include_stack # << >>
       THEN SetInc(restore_previous_script(IncState)) /\ pp_state' = "running"
       ELSE SetInc(IncState) /\ pp_state' = "returned_true"
    /\ UNCHANGED << out_text_buffer, files, include_frame >>

TextItem ==
    /\ pp_state = "running"
    /\ ~AtEnd(IncState)
    /\ CurrentItem(IncState).kind = "text"
    /\ SetInc(take_item(IncState))
    /\ out_text_buffer' = Append(out_text_buffer,
                                 [ file |-> FilenameOf(IncState, m_current_script),
                                   text |-> CurrentItem(IncState).arg ])
    /\ UNCHANGED << pp_state, files, include_frame >>

IncludeItem ==
    /\ pp_state = "running"
    /\ ~AtEnd(IncState)
    /\ CurrentItem(IncState).kind = "include"
    /\ IF CurrentItem(IncState).arg \in DOMAIN files
       THEN /\ SetInc(push_include_file(take_item(IncState), files,
                                        CurrentItem(IncState).arg))
            /\ pp_state' = "running"
       ELSE /\ SetInc(take_item(IncState))
            /\ pp_state' = "returned_false"      \* unable to open included file
    /\ UNCHANGED << out_text_buffer, files, include_frame >>

PragmaItem ==
    /\ pp_state = "running"
    /\ ~AtEnd(IncState)
    /\ CurrentItem(IncState).kind = "pragma"
    /\ SetInc(resolve_pragma_directive(take_pragma(IncState)))
    /\ UNCHANGED << pp_state, out_text_buffer, files, include_frame >>

NextInclude == EndOfFile \/ TextItem \/ IncludeItem \/ PragmaItem

SpecInclude == InitInclude /\ [][NextInclude]_vars

(***************************************************************************)
(* Claims about included files.                                            *)
(***************************************************************************)
\* The k-th lexer of m_dynamic_scripts reads a file an earlier one read too.
LaterInclusion(k) ==
    \E j \in 1..(k - 1) : m_dynamic_scripts[j].filename = m_dynamic_scripts[k].filename

HasPragmaOnce(items) == \E i \in DOMAIN items : items[i] = PragmaOnce

\* C15: when preprocess returns, the include stack is empty and every scanner
\* created for an include has been released: none is left holding its source.
C15_IncludeScannersReleased ==
    pp_state = "returned_true" =>
        /\ m_include_stack = << >>
        /\ \A k \in DOMAIN m_dynamic_scripts : ~m_dynamic_scripts[k].loaded

\* C15, the part about the parent: the end of an included script makes the
\* script that included it current again, at the position after the #include,
\* and a successful return leaves the include stack empty with the initial
\* script current.
C15_ParentResumes ==
    [][ /\ (pp_state = "running" /\ AtEnd(IncState) /\ m_include_stack # << >>) =>
              /\ m_current_script' = m_dynamic_scripts[m_current_script].parent
              /\ PtrOf([ dyn |-> m_dynamic_scripts', main_ptr |-> m_script_ptr' ],
                       m_current_script')
                   = m_dynamic_scripts[m_current_script].resume
              /\ Len(m_include_stack') = Len(m_include_stack) - 1
        /\ pp_state' = "returned_true" =>
              m_include_stack' = << >> /\ m_current_script' = 0 ]_vars

\* A run that returned after a nested include.
C15_Witness ==
    /\ pp_state = "returned_true"
    /\ \E k \in DOMAIN m_dynamic_scripts : m_dynamic_scripts[k].parent # 0

\* C16: a later inclusion of a file that contains #pragma once has no effect:
\* the main loop takes nothing but the #pragma once line from it.
C16_LaterInclusionNoEffect ==
    \A k \in DOMAIN m_dynamic_scripts :
        (LaterInclusion(k) /\ HasPragmaOnce(m_dynamic_scripts[k].script))
            => m_dynamic_scripts[k].acted = 0

\* C16, for the files that start with #pragma once: a later inclusion has no effect.
C16_OnceAtTheTop ==
    \A k \in DOMAIN m_dynamic_scripts :
        (LaterInclusion(k) /\ m_dynamic_scripts[k].script[1] = PragmaOnce)
            => m_dynamic_scripts[k].acted = 0

\* A file with #pragma once was included a second time, and the run went on to its end.
C16_Witness ==
    /\ pp_state = "returned_true"
    /\ \E k \in DOMAIN m_dynamic_scripts :
         LaterInclusion(k) /\ HasPragmaOnce(m_dynamic_scripts[k].script)

(***************************************************************************)
(* The macro table through the public interface of the preprocessor:       *)
(* define (four overloads), undef, find_macro_value, find_macro_tokens.    *)
(* A std::int64_t is an integer; a double is a number of hundredths, and   *)
(* the model keeps to doubles that are whole hundredths.                   *)
(***************************************************************************)
float_fmt_precision   == 20     \* PREPROC_FLOAT_FMT "%.20lf"
flag_double_precision == 512

DigitChars == << "0", "1", "2", "3", "4", "5", "6", "7", "8", "9" >>

RECURSIVE format_digits(_)
format_digits(n) ==
    IF n < 10 THEN << DigitChars[n + 1] >>
    ELSE format_digits(n \div 10) \o << DigitChars[(n % 10) + 1] >>

\* std::snprintf(num_str, sizeof(num_str), PREPROC_INT64_FMT, value)
format_int64(value) ==
    IF value < 0 THEN << "-" >> \o format_digits(-value) ELSE format_digits(value)

\* std::snprintf(num_str, sizeof(num_str), PREPROC_FLOAT_FMT, value)
format_double(value) ==
    LET a == IF value < 0 THEN -value ELSE value
    IN  (IF value < 0 THEN << "-" >> ELSE << >>)
            \o format_digits(a \div 100) \o << "." >>
            \o [ i \in 1..float_fmt_precision |->
                    IF i = 1 THEN DigitChars[((a % 100) \div 10) + 1]
                    ELSE IF i = 2 THEN DigitChars[(a % 10) + 1]
                    ELSE "0" ]

\* *p - '0'
MinusZero(c) ==
    IF c = "-" THEN -3
    ELSE IF c = "." THEN -2
    ELSE IF c = "e" THEN 53
    ELSE IF c = "r" THEN 66
    ELSE IF c = "t" THEN 68
    ELSE IF c = "u" THEN 69
    ELSE (CHOOSE d \in 1..10 : DigitChars[d] = c) - 1

\* update_cached_values, flags::decimal: new_u64_val * 10 + (*p - '0') over the
\* whole string.  The sum is kept in the integers; the 64-bit word holds it
\* modulo 2^64 and as_int64() casts the word back to the same integer.
RECURSIVE decimal_value(_, _, _)
decimal_value(str, i, acc) ==
    IF i > Len(str) THEN acc
    ELSE decimal_value(str, i + 1, acc * 10 + MinusZero(str[i]))

\* update_cached_values, flags::floating_point: the characters before the '.'
RECURSIVE whole_part(_, _, _)
whole_part(str, i, acc) ==
    IF i > Len(str) \/ str[i] = "." THEN [ at |-> i, value |-> acc ]
    ELSE whole_part(str, i + 1, acc * 10 + MinusZero(str[i]))

\* ... and the digits after it: digit * m, with m = 0.1, 0.01, ...  In
\* hundredths the first digit counts ten, the second one; the digits after
\* them are zeros for the doubles of the model.
RECURSIVE fraction_part(_, _, _, _)
fraction_part(str, i, place, acc) ==
    IF i > Len(str) THEN acc
    ELSE fraction_part(str, i + 1, place + 1,
                       acc + MinusZero(str[i])
                               * (IF place = 1 THEN 10 ELSE IF place = 2 THEN 1 ELSE 0))

HasFlag(tok, flag) == BitAnd(tok.m_flags, flag) # 0

\* token::as_int64 of a decimal integer token
as_int64(tok) ==
    IF tok.m_type # "number" THEN 0 ELSE decimal_value(tok.m_string, 1, 0)

\* token::as_double of a floating-point token, in hundredths
as_double(tok) ==
    IF tok.m_type # "number" THEN 0
    ELSE LET w == whole_part(tok.m_string, 1, 0)
         IN  fraction_part(tok.m_string, w.at + 1, 1, w.value * 100)

Table == [ macros |-> m_macros, tokens |-> m_macro_tokens ]

\* define(macro_name, lexer::token value, allow_redefinition)
define(tab, macro_name, value, allow_redefinition) ==
    LET hashed_name == HashTable[macro_name]
        macro_index == macro_find_index(tab.macros, hashed_name)
        new_macro   == macro_def(hashed_name, 0, 0, Len(tab.tokens), 1, FALSE, FALSE)
    IN  IF macro_index >= 0
        THEN IF ~allow_redefinition
             THEN [ ret |-> FALSE, stored |-> FALSE, tab |-> tab ]
             ELSE [ ret |-> TRUE, stored |-> TRUE,
                    tab |-> [ macros |-> [ tab.macros EXCEPT ![macro_index + 1] = new_macro ],
                              tokens |-> Append(macro_clear_tokens(tab.tokens,
                                                                   tab.macros[macro_index + 1]),
                                                value) ] ]
        ELSE [ ret |-> TRUE, stored |-> TRUE,
               tab |-> [ macros |-> Append(tab.macros, new_macro),
                         tokens |-> Append(tab.tokens, value) ] ]

\* define(macro_name, std::string value, allow_redefinition)
define_string_value(tab, macro_name, value, allow_redefinition) ==
    define(tab, macro_name, Tok(value, "string", 0), allow_redefinition)

\* define(macro_name, std::int64_t value, allow_redefinition)
define_int64(tab, macro_name, value, allow_redefinition) ==
    define(tab, macro_name,
           Tok(format_int64(value), "number",
               flag_integer + flag_decimal + flag_signed_integer),
           allow_redefinition)

\* define(macro_name, double value, allow_redefinition)
define_double(tab, macro_name, value, allow_redefinition) ==
    define(tab, macro_name,
           Tok(format_double(value), "number", flag_floating_point + flag_double_precision),
           allow_redefinition)

\* define(define_string, allow_redefinition), for a string that starts with
\* "#define" and a name.  l is the rest of the line as resolve_define_directive
\* reads it; l.bad tells that the parameter list starts with a token that is
\* no identifier, which makes resolve_define_directive return error() before
\* it has stored anything.  Its result is not looked at.
define_directive(tab, l, allow_redefinition) ==
    IF ~allow_redefinition /\ is_defined(tab.macros, l.name)
    THEN [ ret |-> FALSE, stored |-> FALSE, tab |-> tab ]
    ELSE [ ret |-> TRUE, stored |-> ~l.bad,
           tab |-> IF l.bad THEN tab
                   ELSE collect_macro(tab, l.name, l.has_list, l.params, l.body) ]

\* find_macro_token
find_macro_token(tab, macro_name) ==
    LET macro_index == macro_find_index(tab.macros, HashTable[macro_name])
    IN  IF macro_index < 0 THEN [ ok |-> FALSE, tok |-> empty_token ]
        ELSE LET macro == tab.macros[macro_index + 1]
             IN  IF macro.param_token_count # 0 \/ macro.body_token_count # 1
                 THEN [ ok |-> FALSE, tok |-> empty_token ]
                 ELSE [ ok |-> TRUE, tok |-> tab.tokens[macro.first_body_token + 1] ]

\* find_macro_tokens: the tokens from the returned pointer, *out_num_tokens of them
find_macro_tokens(tab, macro_name) ==
    LET macro_index == macro_find_index(tab.macros, HashTable[macro_name])
    IN  IF macro_index < 0 THEN << >>
        ELSE LET macro == tab.macros[macro_index + 1]
             IN  SubSeq(tab.tokens, macro.first_body_token + 1,
                        macro.first_body_token + macro.body_token_count)

Int64Value(v)   == [ NoValue EXCEPT !.kind = "int64", !.int_v = v ]
DoubleValue(v)  == [ NoValue EXCEPT !.kind = "double", !.int_v = v ]
StringValue(s)  == [ NoValue EXCEPT !.kind = "string", !.str_v = s ]
BodyValue(body) == [ NoValue EXCEPT !.kind = "tokens", !.body = body ]

\* find_macro_value(macro_name, out_value), for the three types of out_value;
\* the numeric ones read a token of their own kind of number.
find_macro_value(tab, macro_name, kind) ==
    LET r == find_macro_token(tab, macro_name)
    IN  IF ~r.ok THEN [ ok |-> FALSE, value |-> NoValue ]
        ELSE IF kind = "string" THEN [ ok |-> TRUE, value |-> StringValue(r.tok.m_string) ]
        ELSE IF r.tok.m_type # "number" THEN [ ok |-> FALSE, value |-> NoValue ]
        ELSE IF kind = "int64" THEN [ ok |-> TRUE, value |-> Int64Value(as_int64(r.tok)) ]
        ELSE [ ok |-> TRUE, value |-> DoubleValue(as_double(r.tok)) ]

(***************************************************************************)
(* SpecTable: calls of the interface on one preprocessor, in any order.    *)
(*   api         observation: the last call, its arguments and its result  *)
(*   defined_as  observation: for each name, the value of the last         *)
(*               define of that name that returned true, until an undef    *)
(*               of that name                                              *)
(*   calls       the number of calls made                                  *)
(***************************************************************************)
MaxCalls == 3

TableNames  == { NameA, NameB }
UndefNames  == { NameA, NameB, NameFILE }
Int64Values == { 7, -5 }
DoubleValues == { 275, -50 }            \* 2.75 and -0.5
StringValues == { << "s" >> }

DefLine(name, has_list, params, body, bad) ==
    [ name |-> name, has_list |-> has_list, params |-> params, body |-> body, bad |-> bad ]

DefineStrings ==
    { DefLine(NameA, FALSE, << >>, << NumberOne >>, FALSE),               \* #define A 1
      DefLine(NameA, TRUE, << IdTok(NameX) >>,                            \* #define A(X) X X
              << IdTok(NameX), IdTok(NameX) >>, FALSE),
      DefLine(NameB, FALSE, << >>, << >>, FALSE),                         \* #define B
      DefLine(NameB, TRUE, << >>, << IdTok(NameX) >>, TRUE) }             \* #define B(1) X

\* stored: the call reached the point where it writes the definition.
ApiCall(op, name, allow, ret, stored, value) ==
    [ op |-> op, name |-> name, allow |-> allow, ret |-> ret, stored |-> stored,
      was_defined |-> is_defined(m_macros, name), value |-> value ]

table_frame == << pp_vars, mx_vars, lex_vars, punct_vars, files, more_vars >>

InitTable ==
    /\ PPIdle /\ PunctIdle /\ MoreIdle /\ MacroIdle /\ LexIdle
    /\ files = << >>
    /\ pp_state = "off"
    /\ m_macros = macro_define_builtins(<< >>)
    /\ m_macro_tokens = << >>
    /\ api = NoCall
    /\ defined_as = [ n \in TableNames |-> NoValue ]
    /\ calls = 0

\* The state after a call of define.
Defined(r, name, allow, value) ==
    /\ m_macros' = r.tab.macros
    /\ m_macro_tokens' = r.tab.tokens
    /\ api' = ApiCall("define", name, allow, r.ret, r.stored, value)
    /\ defined_as' = IF r.ret THEN [ defined_as EXCEPT ![name] = value ] ELSE defined_as
    /\ calls' = calls + 1
    /\ UNCHANGED table_frame

DefineInt64 ==
    /\ calls < MaxCalls
    /\ \E name \in TableNames, v \in Int64Values, allow \in BOOLEAN :
         \E r \in { define_int64(Table, name, v, allow) } :
            Defined(r, name, allow, Int64Value(v))

DefineDouble ==
    /\ calls < MaxCalls
    /\ \E name \in TableNames, v \in DoubleValues, allow \in BOOLEAN :
         \E r \in { define_double(Table, name, v, allow) } :
            Defined(r, name, allow, DoubleValue(v))

DefineString ==
    /\ calls < MaxCalls
    /\ \E name \in TableNames, v \in StringValues, allow \in BOOLEAN :
         \E r \in { define_string_value(Table, name, v, allow) } :
            Defined(r, name, allow, StringValue(v))

DefineDirective ==
    /\ calls < MaxCalls
    /\ \E l \in DefineStrings, allow \in BOOLEAN :
         \E r \in { define_directive(Table, l, allow) } :
            Defined(r, l.name, allow, BodyValue(l.body))

\* undef(macro_name), and #undef through resolve_undef_directive
Undef ==
    /\ calls < MaxCalls
    /\ \E name \in UndefNames :
         \E t \in { macro_undefine(Table, name) } :
            /\ m_macros' = t.macros
            /\ m_macro_tokens' = t.tokens
            /\ api' = ApiCall("undef", name, FALSE, TRUE, FALSE, NoValue)
            /\ defined_as' = [ n \in TableNames |->
                                 IF n = name THEN NoValue ELSE defined_as[n] ]
    /\ calls' = calls + 1
    /\ UNCHANGED table_frame

FindMacroValue ==
    /\ calls < MaxCalls
    /\ \E name \in TableNames, kind \in { "int64", "double", "string" } :
         \E t \in { find_macro_token(Table, name).tok } :
            /\ t.m_type = "number" =>
                  \/ kind = "string"
                  \/ kind = "int64"  /\ ~HasFlag(t, flag_floating_point)
                  \/ kind = "double" /\ HasFlag(t, flag_floating_point)
            /\ \E r \in { find_macro_value(Table, name, kind) } :
                  api' = ApiCall("find_macro_value", name, FALSE, r.ok, FALSE,
                              [ r.value EXCEPT !.kind = kind ])
    /\ calls' = calls + 1
    /\ UNCHANGED << tab_vars, defined_as, table_frame >>

FindMacroTokens ==
    /\ calls < MaxCalls
    /\ \E name \in TableNames :
         api' = ApiCall("find_macro_tokens", name, FALSE, TRUE, FALSE,
                     BodyValue(find_macro_tokens(Table, name)))
    /\ calls' = calls + 1
    /\ UNCHANGED << tab_vars, defined_as, table_frame >>

NextTable ==
    \/ DefineInt64 \/ DefineDouble \/ DefineString \/ DefineDirective
    \/ Undef \/ FindMacroValue \/ FindMacroTokens

SpecTable == InitTable /\ [][NextTable]_vars

(***************************************************************************)
(* Claims about the macro table.                                           *)
(***************************************************************************)
InSlices(macro, j) ==
    \/ /\ j - 1 >= macro.first_param_token
       /\ j - 1 <  macro.first_param_token + macro.param_token_count
    \/ /\ j - 1 >= macro.first_body_token
       /\ j - 1 <  macro.first_body_token + macro.body_token_count

\* The parameter and body tokens a record denotes in a token vector.
Denotes(macro, tokens) ==
    << SubSeq(tokens, macro.first_param_token + 1,
              macro.first_param_token + macro.param_token_count),
       SubSeq(tokens, macro.first_body_token + 1,
              macro.first_body_token + macro.body_token_count) >>

Records(macros) == { macros[i] : i \in DOMAIN macros }

RecordOf(macros, name) == macros[macro_find_index(macros, HashTable[name]) + 1]

\* C17: a define call with allow_redefinition = false returns false and leaves
\* the table as it was when the name is defined, and returns true with the
\* name defined afterwards when it is not.
C17_DefineWithoutRedefinition ==
    [][ (api'.op = "define" /\ calls' # calls /\ ~api'.allow) =>
           IF is_defined(m_macros, api'.name)
           THEN ~api'.ret /\ UNCHANGED tab_vars
           ELSE api'.ret /\ is_defined(m_macros', api'.name) ]_vars

\* C17, for the calls that stored a definition or refused one: as above.
C17_StoredOrRefused ==
    [][ (api'.op = "define" /\ calls' # calls /\ ~api'.allow
            /\ (api'.stored \/ ~api'.ret)) =>
           IF is_defined(m_macros, api'.name)
           THEN ~api'.ret /\ UNCHANGED tab_vars
           ELSE api'.ret /\ is_defined(m_macros', api'.name) ]_vars

\* A define without redefinition was refused on a defined name.
C17_Witness ==
    api.op = "define" /\ ~api.allow /\ api.was_defined /\ ~api.ret

\* C18: after a successful define of a name with a value, and any later calls
\* that define or undefine other names, find_macro_value of that name gives
\* that value and find_macro_tokens gives exactly the body tokens.
C18_RoundTrip ==
    /\ (api.op = "find_macro_value" /\ defined_as[api.name].kind = api.value.kind) =>
          api.ret /\ api.value = defined_as[api.name]
    /\ (api.op = "find_macro_tokens" /\ defined_as[api.name].kind = "tokens") =>
          api.value = defined_as[api.name]

\* C18, for strings and for numbers that are not negative.
C18_RoundTripOfNonNegative ==
    (/\ api.op = "find_macro_value"
     /\ defined_as[api.name].kind = api.value.kind
     /\ defined_as[api.name].int_v >= 0) =>
        api.ret /\ api.value = defined_as[api.name]

C18_Witness ==
    /\ api.op = "find_macro_value"
    /\ defined_as[api.name].kind = "double"
    /\ api.value.kind = "double"
    /\ defined_as[api.name].int_v > 0
    /\ calls = MaxCalls

\* C19: a define that stores a definition for a name already defined replaces
\* the record of that name in place; the token vector does not shrink, the old
\* parameter and body tokens are overwritten with empty tokens where they
\* were, every other token stays, the new tokens are behind the old end of the
\* vector, and every other record is unchanged and denotes the same tokens.
C19_RedefinitionReplaces ==
    [][ (api'.op = "define" /\ calls' # calls /\ api'.stored
            /\ is_defined(m_macros, api'.name)) =>
           LET i   == macro_find_index(m_macros, HashTable[api'.name]) + 1
               old == m_macros[i]
               new == m_macros'[i]
           IN  /\ Len(m_macros') = Len(m_macros)
               /\ new.hashed_name = old.hashed_name
               /\ Len(m_macro_tokens') >= Len(m_macro_tokens)
               /\ \A j \in 1..Len(m_macro_tokens) :
                     m_macro_tokens'[j] = IF InSlices(old, j) THEN empty_token
                                          ELSE m_macro_tokens[j]
               /\ new.param_token_count > 0 => new.first_param_token >= Len(m_macro_tokens)
               /\ new.body_token_count > 0 => new.first_body_token >= Len(m_macro_tokens)
               /\ \A k \in DOMAIN m_macros \ { i } :
                     /\ m_macros'[k] = m_macros[k]
                     /\ Denotes(m_macros'[k], m_macro_tokens')
                          = Denotes(m_macros[k], m_macro_tokens) ]_vars

\* A macro with tokens was redefined while another macro with tokens was defined.
C19_Witness ==
    /\ api.op = "define" /\ api.stored /\ api.was_defined
    /\ \E j \in 1..Len(m_macro_tokens) : m_macro_tokens[j] = empty_token
    /\ \E n \in TableNames \ { api.name } :
         /\ is_defined(m_macros, n)
         /\ RecordOf(m_macros, n).body_token_count > 0

\* C20: undefining a defined name, user macro or built-in, removes the record
\* of that name and no other; the name is not defined afterwards, the token
\* vector keeps its length, and every other record is unchanged and denotes
\* the same tokens.  Undefining a name that is not defined changes nothing.
C20_UndefRemovesOne ==
    [][ (api'.op = "undef" /\ calls' # calls) =>
           IF is_defined(m_macros, api'.name)
           THEN /\ ~is_defined(m_macros', api'.name)
                /\ Len(m_macros') = Len(m_macros) - 1
                /\ Records(m_macros') = Records(m_macros) \ { RecordOf(m_macros, api'.name) }
                /\ Len(m_macro_tokens') = Len(m_macro_tokens)
                /\ \A r \in Records(m_macros') :
                     Denotes(r, m_macro_tokens') = Denotes(r, m_macro_tokens)
           ELSE UNCHANGED tab_vars ]_vars

\* A macro that was not the last record was undefined while another macro with
\* tokens was defined.
C20_Witness ==
    /\ api.op = "undef" /\ api.was_defined
    /\ \E n \in TableNames \ { api.name } :
         /\ is_defined(m_macros, n)
         /\ RecordOf(m_macros, n).body_token_count > 0
         /\ macro_find_index(m_macros, HashTable[n]) + 1 = Len(m_macros)
         /\ Len(m_macro_tokens) > RecordOf(m_macros, n).body_token_count

(***************************************************************************)
(* One lexer::token: the setters the scanner and its users call, and the    *)
(* numeric value the token caches behind m_values_valid.  A double is kept  *)
(* exactly, as a numerator over a power of ten.  The texts of the model     *)
(* hold digits, one '.', or "true"; they hold no exponent, and the flags    *)
(* are those of a decimal integer, of a double, of a boolean, or none.      *)
(***************************************************************************)
MaxText == 4   \* characters a token's text can hold

flag_boolean == 65536

TokenTexts == { << >>, << "1", "2" >>, << "2", ".", "5" >>, << "t", "r", "u", "e" >>, << "7" >> }
AppendChars == { "0", "5", NUL }
TokenFlags == { 0, flag_integer + flag_decimal + flag_signed_integer,
                flag_floating_point + flag_double_precision, flag_boolean }
TokenTypes == { "none", "number", "identifier" }

RECURSIVE Pow10(_)
Pow10(k) == IF k = 0 THEN 1 ELSE 10 * Pow10(k - 1)

\* update_cached_values, flags::floating_point: the characters before the '.'
\* or the 'e' ...
RECURSIVE float_whole(_, _, _)
float_whole(str, i, acc) ==
    IF i > Len(str) \/ str[i] = "." \/ str[i] = "e" THEN [ at |-> i, value |-> acc ]
    ELSE float_whole(str, i + 1, acc * 10 + MinusZero(str[i]))

\* ... the characters after the '.', each worth a tenth of the one before it ...
RECURSIVE fraction_digits(_, _, _)
fraction_digits(str, i, acc) ==
    IF i > Len(str) \/ str[i] = "e" THEN [ at |-> i, value |-> acc ]
    ELSE fraction_digits(str, i + 1, Dbl(acc.num * 10 + MinusZero(str[i]), acc.places + 1))

\* ... and the exponent after the 'e': the power of ten the value is multiplied
\* with, or divided by after "e-".
float_exponent(str, i, d) ==
    LET div   == i <= Len(str) /\ str[i] = "-"
        start == IF i <= Len(str) /\ str[i] \in { "-", "+" } THEN i + 1 ELSE i
        pow   == decimal_value(str, start, 0)
        m     == IF pow > 0 THEN pow ELSE 0
    IN  IF div THEN Dbl(d.num, d.places + m) ELSE Dbl(d.num * Pow10(m), d.places)

\* token::set_string without the write to m_values_valid.
token_set_string_keeps_cache(t, new_text) ==
    [ t EXCEPT !.m_string = new_text ]

token_set_string(t, new_text) ==
    [ t EXCEPT !.m_string = new_text, !.m_values_valid = FALSE ]

token_set_flags(t, new_flags) ==
    [ t EXCEPT !.m_flags = new_flags, !.m_values_valid = FALSE ]

token_set_type(t, new_type) ==
    [ t EXCEPT !.m_type = new_type, !.m_values_valid = FALSE ]

token_append(t, c) ==
    IF c # NUL
    THEN [ t EXCEPT !.m_string = Append(@, c), !.m_values_valid = FALSE ]
    ELSE t

token_clear == default_token

token_is_number(t)  == t.m_type = "number"
token_is_boolean(t) == BitAnd(t.m_flags, flag_boolean) # 0

update_cached_values(t) ==
    IF BitAnd(t.m_flags, flag_floating_point) # 0
    THEN LET str == t.m_string
             w   == float_whole(str, 1, 0)
             f   == IF w.at <= Len(str) /\ str[w.at] = "."
                    THEN fraction_digits(str, w.at + 1, Dbl(w.value, 0))
                    ELSE [ at |-> w.at, value |-> Dbl(w.value, 0) ]
             d   == IF f.at <= Len(str) /\ str[f.at] = "e"
                    THEN float_exponent(str, f.at + 1, f.value)
                    ELSE f.value
         IN  [ t EXCEPT !.m_u64_value = d.num \div Pow10(d.places),
                        !.m_double_value = d,
                        !.m_values_valid = TRUE ]
    ELSE IF BitAnd(t.m_flags, flag_decimal) # 0
    THEN LET v == decimal_value(t.m_string, 1, 0)
         IN  [ t EXCEPT !.m_u64_value = v,
                        !.m_double_value = Dbl(v, 0),
                        !.m_values_valid = TRUE ]
    ELSE IF BitAnd(t.m_flags, flag_boolean) # 0
    THEN LET v == IF t.m_string = << "t", "r", "u", "e" >> THEN 1 ELSE 0
         IN  [ t EXCEPT !.m_u64_value = v,
                        !.m_double_value = Dbl(v, 0),
                        !.m_values_valid = TRUE ]
    ELSE [ t EXCEPT !.m_u64_value = 0,
                    !.m_double_value = Dbl(0, 0),
                    !.m_values_valid = TRUE ]

\* get_value_u64 and get_value_double: the value handed out and the token
\* with the cache as the call leaves it.
get_value_u64(t) ==
    IF ~token_is_number(t) /\ ~token_is_boolean(t) THEN [ value |-> 0, t |-> t ]
    ELSE LET u == IF ~t.m_values_valid THEN update_cached_values(t) ELSE t
         IN  [ value |-> u.m_u64_value, t |-> u ]

get_value_double(t) ==
    IF ~token_is_number(t) /\ ~token_is_boolean(t) THEN [ value |-> Dbl(0, 0), t |-> t ]
    ELSE LET u == IF ~t.m_values_valid THEN update_cached_values(t) ELSE t
         IN  [ value |-> u.m_double_value, t |-> u ]

token_frame == << pp_vars, tab_vars, mx_vars, lex_vars, punct_vars, files, table_obs,
                  space_vars, punct_static, eval_vars >>

InitToken ==
    /\ PPIdle /\ ExtIdle /\ MacroIdle /\ LexIdle
    /\ pp_state = "off"
    /\ m_macros = << >>
    /\ m_macro_tokens = << >>

Mutate(t) ==
    /\ cached_token' = t
    /\ got' = NoRead
    /\ UNCHANGED token_frame

TokSetString == \E s \in TokenTexts : Mutate(token_set_string(cached_token, s))
TokSetFlags  == \E f \in TokenFlags : Mutate(token_set_flags(cached_token, f))
TokSetType   == \E ty \in TokenTypes : Mutate(token_set_type(cached_token, ty))
TokAppend    == \E c \in AppendChars :
                    /\ Len(cached_token.m_string) < MaxText
                    /\ Mutate(token_append(cached_token, c))
TokClear     == Mutate(token_clear)

\* The value the token's text and flags stand for, computed afresh.
ValueOf(t) == update_cached_values(t)

\* The cache is out of date and holds another value than the text stands for.
Stale(t) ==
    /\ ~t.m_values_valid
    /\ \/ t.m_u64_value # ValueOf(t).m_u64_value
       \/ t.m_double_value # ValueOf(t).m_double_value

TokAsInt64 ==
    LET r == get_value_u64(cached_token)
    IN  /\ cached_token' = r.t
        /\ got' = [ op |-> "as_int64", int_v |-> r.value, dbl_v |-> Dbl(0, 0),
                    stale |-> Stale(cached_token) ]
        /\ UNCHANGED token_frame

TokAsDouble ==
    LET r == get_value_double(cached_token)
    IN  /\ cached_token' = r.t
        /\ got' = [ op |-> "as_double", int_v |-> 0, dbl_v |-> r.value,
                    stale |-> Stale(cached_token) ]
        /\ UNCHANGED token_frame

NextTok == \/ TokSetString \/ TokSetFlags \/ TokSetType \/ TokAppend \/ TokClear
           \/ TokAsInt64 \/ TokAsDouble

SpecToken == InitToken /\ [][NextTok]_vars

(***************************************************************************)
(* Claims about the cached value of a token.                               *)
(***************************************************************************)
HasValue(t) == token_is_number(t) \/ token_is_boolean(t)

\* C25: after the text, the flags or the type of a token changed (set_string,
\* append, set_flags, set_type, clear), as_int64() and as_double() give the
\* value computed from the text and flags the token has now: zero for a token
\* that is neither a number nor a boolean.
C25_ValueFollowsText ==
    /\ got.op = "as_int64" =>
          got.int_v = IF HasValue(cached_token) THEN ValueOf(cached_token).m_u64_value ELSE 0
    /\ got.op = "as_double" =>
          got.dbl_v = IF HasValue(cached_token) THEN ValueOf(cached_token).m_double_value
                      ELSE Dbl(0, 0)

\* A number was read while its cache held the value of an earlier text.
C25_Witness ==
    /\ got.op = "as_int64"
    /\ got.stale
    /\ token_is_number(cached_token)
    /\ got.int_v > 0

(***************************************************************************)
(* The script as a buffer of characters with a NUL behind its last one, and *)
(* the two operations that skip whitespace and comments:                    *)
(* internal_read_whitespace, which every scan of a token starts with, and   *)
(* the public skip_whitespace.  A scanner state s holds m_script_ptr (as an *)
(* offset into the buffer), m_line_num and m_warn_count.                    *)
(***************************************************************************)
MaxChars == 7   \* characters of the script

ScriptChars == { "/", "*", "x", "\n" }

Scripts == UNION { [ 1..n -> ScriptChars ] : n \in 0..MaxChars }

\* *(m_script_ptr + k)
PtrChar(chars, s, k) ==
    IF s.m_script_ptr + k < Len(chars) THEN chars[s.m_script_ptr + k + 1] ELSE NUL

\* *m_script_ptr <= ' '
IsBlank(c) == c \in { NUL, "\n", " " }

Advance(s) == [ s EXCEPT !.m_script_ptr = @ + 1 ]
NewLine(s) == [ s EXCEPT !.m_line_num = @ + 1 ]
Warned(s)  == [ s EXCEPT !.m_warn_count = @ + 1 ]

Skipped(s, ret) == [ ret |-> ret, s |-> s ]

\* while (*m_script_ptr <= ' ') of internal_read_whitespace
RECURSIVE read_blanks(_, _)
read_blanks(chars, s) ==
    LET c == PtrChar(chars, s, 0)
    IN  IF ~IsBlank(c) THEN [ eof |-> FALSE, s |-> s ]
        ELSE IF c = NUL THEN [ eof |-> TRUE, s |-> s ]
        ELSE read_blanks(chars, Advance(IF c = "\n" THEN NewLine(s) ELSE s))

\* do { ++m_script_ptr; ... } while (*m_script_ptr != '\n') of a "//" comment
RECURSIVE line_comment(_, _)
line_comment(chars, s) ==
    LET n == Advance(s)
    IN  IF PtrChar(chars, n, 0) = NUL THEN [ eof |-> TRUE, s |-> n ]
        ELSE IF PtrChar(chars, n, 0) = "\n" THEN [ eof |-> FALSE, s |-> n ]
        ELSE line_comment(chars, n)

\* for (;;) { ++m_script_ptr; ... } of a "/*" comment: it ends on a '/' that
\* follows a '*', and warns on a '/' that a '*' follows.
RECURSIVE block_comment(_, _)
block_comment(chars, s) ==
    LET n == Advance(s)
        c == PtrChar(chars, n, 0)
    IN  IF c = NUL THEN [ eof |-> TRUE, s |-> n ]
        ELSE IF c = "\n" THEN block_comment(chars, NewLine(n))
        ELSE IF c = "/"
        THEN IF PtrChar(chars, n, -1) = "*" THEN [ eof |-> FALSE, s |-> n ]
             ELSE IF PtrChar(chars, n, 1) = "*" THEN block_comment(chars, Warned(n))
             ELSE block_comment(chars, n)
        ELSE block_comment(chars, n)

RECURSIVE internal_read_whitespace(_, _)
internal_read_whitespace(chars, s) ==
    LET b == read_blanks(chars, s) IN
        IF b.eof THEN Skipped(b.s, FALSE)
        ELSE IF PtrChar(chars, b.s, 0) = "/" /\ PtrChar(chars, b.s, 1) = "/"
        THEN LET l == line_comment(chars, Advance(b.s)) IN
                 IF l.eof THEN Skipped(l.s, FALSE)
                 ELSE IF PtrChar(chars, Advance(l.s), 0) = NUL
                 THEN Skipped(Advance(NewLine(l.s)), FALSE)
                 ELSE internal_read_whitespace(chars, Advance(NewLine(l.s)))
        ELSE IF PtrChar(chars, b.s, 0) = "/" /\ PtrChar(chars, b.s, 1) = "*"
        THEN LET k == block_comment(chars, Advance(b.s)) IN
                 IF k.eof THEN Skipped(k.s, FALSE)
                 ELSE IF PtrChar(chars, k.s, 1) = NUL THEN Skipped(Advance(k.s), FALSE)
                 ELSE IF PtrChar(chars, k.s, 2) = NUL THEN Skipped(Advance(Advance(k.s)), FALSE)
                 ELSE internal_read_whitespace(chars, Advance(Advance(k.s)))
        ELSE Skipped(b.s, TRUE)

\* while (*m_script_ptr <= ' ') of skip_whitespace: it ends at the end of the
\* buffer ("eof"), behind a newline when current_line is set ("line"), or on a
\* character that is no blank ("char").
RECURSIVE skip_blanks(_, _, _)
skip_blanks(chars, s, current_line) ==
    LET c == PtrChar(chars, s, 0)
    IN  IF ~IsBlank(c) THEN [ at |-> "char", s |-> s ]
        ELSE IF s.m_script_ptr = Len(chars) \/ c = NUL THEN [ at |-> "eof", s |-> s ]
        ELSE IF c = "\n" /\ current_line THEN [ at |-> "line", s |-> Advance(NewLine(s)) ]
        ELSE skip_blanks(chars, Advance(IF c = "\n" THEN NewLine(s) ELSE s), current_line)

RECURSIVE skip_whitespace(_, _, _)
skip_whitespace(chars, s, current_line) ==
    IF s.m_script_ptr = Len(chars) THEN Skipped(s, FALSE)
    ELSE LET b == skip_blanks(chars, s, current_line) IN
        IF b.at = "eof" THEN Skipped(b.s, FALSE)
        ELSE IF b.at = "line" THEN Skipped(b.s, TRUE)
        ELSE IF PtrChar(chars, b.s, 0) = "/" /\ PtrChar(chars, b.s, 1) = "/"
        THEN LET l == line_comment(chars, Advance(b.s)) IN
                 IF l.eof THEN Skipped(l.s, FALSE)
                 ELSE IF current_line THEN Skipped(Advance(NewLine(l.s)), TRUE)
                 ELSE IF PtrChar(chars, Advance(l.s), 0) = NUL
                 THEN Skipped(Advance(NewLine(l.s)), FALSE)
                 ELSE skip_whitespace(chars, Advance(NewLine(l.s)), current_line)
        ELSE IF PtrChar(chars, b.s, 0) = "/" /\ PtrChar(chars, b.s, 1) = "*"
        THEN LET k == block_comment(chars, Advance(b.s)) IN
                 IF k.eof THEN Skipped(k.s, FALSE)
                 ELSE IF PtrChar(chars, k.s, 1) = NUL THEN Skipped(Advance(k.s), FALSE)
                 ELSE skip_whitespace(chars, Advance(k.s), current_line)
        ELSE Skipped(b.s, TRUE)

Scanner == [ m_script_ptr |-> scan.m_script_ptr, m_line_num |-> scan.m_line_num,
             m_warn_count |-> scan.m_warn_count ]

space_frame == << pp_vars, tab_vars, mx_vars, lex_vars, punct_vars, files, table_obs,
                  tok_vars, punct_static, eval_vars >>

InitSpace ==
    /\ PPIdle /\ PunctIdle /\ TableIdle /\ TokenIdle /\ StaticIdle /\ EvalIdle
    /\ MacroIdle /\ LexIdle
    /\ files = << >>
    /\ pp_state = "off"
    /\ m_macros = << >>
    /\ m_macro_tokens = << >>
    /\ buffer \in Scripts
    /\ scan = NoScan

SetScan(op, r) ==
    /\ scan' = [ m_script_ptr |-> r.s.m_script_ptr, m_line_num |-> r.s.m_line_num,
                 m_warn_count |-> r.s.m_warn_count,
                 op |-> op, ret |-> r.ret, from |-> scan.m_script_ptr ]
    /\ UNCHANGED << buffer, space_frame >>

\* A token is scanned: read_token starts with internal_read_whitespace.
InternalReadWhitespace ==
    SetScan("internal_read_whitespace", internal_read_whitespace(buffer, Scanner))

SkipWhitespace ==
    \E current_line \in BOOLEAN :
        SetScan("skip_whitespace", skip_whitespace(buffer, Scanner, current_line))

\* The scanner takes the character it stands on, as the scan of a token does.
TakeChar ==
    /\ ~IsBlank(PtrChar(buffer, scan, 0))
    /\ scan' = [ scan EXCEPT !.m_script_ptr = @ + 1, !.op = "none", !.ret = FALSE,
                             !.from = scan.m_script_ptr ]
    /\ UNCHANGED << buffer, space_frame >>

NextSpace == InternalReadWhitespace \/ SkipWhitespace \/ TakeChar

SpecSpace == InitSpace /\ [][NextSpace]_vars

(***************************************************************************)
(* Claims about comments.                                                  *)
(***************************************************************************)
\* The offsets of the '/' of a "*/" behind the "/*" at offset from.
Closings(from) ==
    { k \in from + 3 .. Len(buffer) - 1 : buffer[k] = "*" /\ buffer[k + 1] = "/" }

FirstClosing(from) == CHOOSE k \in Closings(from) : \A j \in Closings(from) : k <= j

\* The offsets of a "/*" inside the comment that starts at offset from.
Openings(from) ==
    { j \in from + 2 .. FirstClosing(from) - 2 : buffer[j + 1] = "/" /\ buffer[j + 2] = "*" }

\* The last skipper started on a "/*" comment whose text does not start with
\* '/', which holds one "/*" and whose "*/" is followed by an x.
NestedComment ==
    /\ scan.op # "none"
    /\ scan.from + 3 <= Len(buffer)
    /\ buffer[scan.from + 1] = "/"
    /\ buffer[scan.from + 2] = "*"
    /\ buffer[scan.from + 3] # "/"
    /\ Closings(scan.from) # {}
    /\ Cardinality(Openings(scan.from)) = 1
    /\ FirstClosing(scan.from) + 1 < Len(buffer)
    /\ buffer[FirstClosing(scan.from) + 2] = "x"

\* C26: a "/*" inside a "/* ... */" comment raises one warning and the comment
\* ends at the first "*/": the skipper, whichever of the two it is, leaves
\* m_script_ptr on the character right behind that "*/".
C26_ResumesBehindComment ==
    (NestedComment /\ scan.from = 0)
        => /\ scan.ret
           /\ scan.m_script_ptr = FirstClosing(0) + 1
           /\ scan.m_warn_count = 1

\* The same for skip_whitespace alone.
C26_SkipWhitespaceResumes ==
    (NestedComment /\ scan.from = 0 /\ scan.op = "skip_whitespace")
        => /\ scan.ret
           /\ scan.m_script_ptr = FirstClosing(0) + 1
           /\ scan.m_warn_count = 1

\* internal_read_whitespace has skipped a nested comment with text behind it.
C26_Witness ==
    /\ NestedComment
    /\ scan.from = 0
    /\ scan.op = "internal_read_whitespace"
    /\ scan.m_warn_count = 1

(***************************************************************************)
(* The punctuation tables over their life: the static initializer of the   *)
(* lexer calls set_default_punctuation_tables once before anything else,   *)
(* the user then sets arrays of his own, with table buffers of his own,    *)
(* and the default ones again.  m_punctuations, m_punctuations_table and    *)
(* m_punctuations_next are what the three pointers point to.               *)
(***************************************************************************)
MaxCustom == 2   \* entries of an array the user sets

CustomArrays ==
    { [ i \in DOMAIN f |-> punctuation_def(f[i], i) ] :
        f \in UNION { [ 0..(n - 1) -> PunctPool ] : n \in 1..MaxCustom } }

\* set_default_punctuation_tables that re-points m_punctuations alone.
set_default_punctuation_tables_keeps_tables(st, table, next) ==
    IF ~st.initialized
    THEN LET t == set_punctuation_tables(default_punctuations)
         IN  [ punctuations |-> default_punctuations, table |-> t.table, next |-> t.next,
               st |-> [ st EXCEPT !.table = t.table, !.next = t.next,
                                  !.initialized = TRUE ] ]
    ELSE [ punctuations |-> default_punctuations, table |-> table, next |-> next,
           st |-> st ]

\* st is the static storage; table and next are what m_punctuations_table and
\* m_punctuations_next point to at the call.
set_default_punctuation_tables(st, table, next) ==
    IF ~st.initialized
    THEN LET t == set_punctuation_tables(default_punctuations)
         IN  [ punctuations |-> default_punctuations, table |-> t.table, next |-> t.next,
               st |-> [ st EXCEPT !.table = t.table, !.next = t.next,
                                  !.initialized = TRUE ] ]
    ELSE [ punctuations |-> default_punctuations, table |-> st.table, next |-> st.next,
           st |-> st ]

default_frame == << pp_vars, tab_vars, mx_vars, lex_vars, files, table_obs,
                    tok_vars, space_vars, eval_vars >>

InitDefault ==
    /\ PPIdle /\ ExtIdle /\ MacroIdle /\ LexIdle
    /\ pp_state = "off"
    /\ m_macros = << >>
    /\ m_macro_tokens = << >>

\* global_lex_initializer, and every later call of the user.
SetDefaultTables ==
    \E r \in { set_default_punctuation_tables(punct_static, m_punctuations_table,
                                              m_punctuations_next) } :
        /\ m_punctuations' = r.punctuations
        /\ m_punctuations_table' = r.table
        /\ m_punctuations_next' = r.next
        /\ punct_static' = [ r.st EXCEPT !.last = "set_default_punctuation_tables" ]
        /\ punct_script' = << >>
        /\ punct_result' = NoResult
        /\ UNCHANGED default_frame

\* set_punctuation_tables with an array and table buffers of the user.
SetCustomTables ==
    /\ punct_static.initialized
    /\ \E a \in CustomArrays :
         \E t \in { set_punctuation_tables(a) } :
            /\ m_punctuations' = a
            /\ m_punctuations_table' = t.table
            /\ m_punctuations_next' = t.next
    /\ punct_static' = [ punct_static EXCEPT !.last = "set_punctuation_tables",
                                              !.custom_used = TRUE ]
    /\ punct_script' = << >>
    /\ punct_result' = NoResult
    /\ UNCHANGED default_frame

\* A script that holds one punctuator of the active array is scanned.
ScanPunctuator ==
    /\ punct_static.initialized
    /\ \E sc \in PunctStrings(m_punctuations) \ { << >> } :
         \E r \in { internal_read_punctuation(m_punctuations, m_punctuations_table,
                                              m_punctuations_next, sc) } :
            /\ punct_script' = sc
            /\ punct_result' = [ called |-> TRUE, ok |-> r.ok, tok |-> r.tok,
                                 consumed |-> r.consumed ]
    /\ punct_static' = [ punct_static EXCEPT !.last = "scan" ]
    /\ UNCHANGED << m_punctuations, m_punctuations_table, m_punctuations_next,
                    default_frame >>

NextDefault == SetDefaultTables \/ SetCustomTables \/ ScanPunctuator

SpecDefault == InitDefault /\ [][NextDefault]_vars

(***************************************************************************)
(* Claims about the sequence of punctuation tables.                        *)
(***************************************************************************)
\* The entries of the active array that hold the script scanned last, when
\* no other entry holds the same string.
Scanned ==
    { i \in DOMAIN m_punctuations :
        /\ m_punctuations[i].str # nullptr
        /\ m_punctuations[i].str = punct_script
        /\ \A j \in DOMAIN m_punctuations :
              (m_punctuations[j].str = punct_script) => j = i }

\* C27: after any sequence of set_punctuation_tables and
\* set_default_punctuation_tables calls the two tables belong to the active
\* array: a punctuator of the array, scanned alone, gives a punctuation token
\* with its string and its id; and after set_default_punctuation_tables the
\* active array is the default one with the tables that were built for it,
\* once, in the static storage.
C27_TablesFollowActiveArray ==
    /\ punct_result.called =>
          \A i \in Scanned :
              /\ punct_result.ok
              /\ punct_result.tok.m_type = "punctuation"
              /\ punct_result.tok.m_flags = m_punctuations[i].id
              /\ punct_result.tok.m_string = m_punctuations[i].str
              /\ punct_result.consumed = Len(punct_script)
    /\ punct_static.last = "set_default_punctuation_tables" =>
          /\ m_punctuations = default_punctuations
          /\ m_punctuations_table = punct_static.table
          /\ m_punctuations_next = punct_static.next
          /\ DOMAIN m_punctuations_next = DOMAIN default_punctuations

\* "<<" of the default array is scanned after an array of the user was
\* active and the default tables were set again.
C27_Witness ==
    /\ punct_static.custom_used
    /\ punct_static.last = "scan"
    /\ m_punctuations = default_punctuations
    /\ punct_script = << "<", "<" >>
    /\ punct_result.ok
    /\ punct_result.tok.m_flags = 8

(***************************************************************************)
(* The expression evaluator of #if and #elif (class expr_evaluator).       *)
(* A value is an eval_value: its type and the member of the union the type *)
(* selects; the member it does not select is never read and is kept at     *)
(* zero.  A double is a fraction num/den in lowest terms, den > 0; the     *)
(* doubles of the model are the ones the arithmetic keeps exact.           *)
(***************************************************************************)
MaxOperand == 2   \* the largest integer literal under one operator

RECURSIVE Gcd(_, _)
Gcd(a, b) == IF b = 0 THEN a ELSE Gcd(b, a % b)

Magnitude(a) == IF a < 0 THEN -a ELSE a

Rat(n, d) ==
    LET g == Gcd(Magnitude(n), Magnitude(d))
        s == IF d < 0 THEN -1 ELSE 1
    IN  [ num |-> (s * n) \div g, den |-> (s * d) \div g ]

RatOfInt(n)   == [ num |-> n, den |-> 1 ]
RatAdd(x, y)  == Rat(x.num * y.den + y.num * x.den, x.den * y.den)
RatSub(x, y)  == Rat(x.num * y.den - y.num * x.den, x.den * y.den)
RatMul(x, y)  == Rat(x.num * y.num, x.den * y.den)
RatDiv(x, y)  == Rat(x.num * y.den, x.den * y.num)
RatLess(x, y) == x.num * y.den < y.num * x.den
RatIsZero(x)  == x.num = 0

eval_type_int    == "eval_type_int"
eval_type_double == "eval_type_double"

eval_int(n)    == [ type |-> eval_type_int, as_int |-> n, as_double |-> RatOfInt(0) ]
eval_double(r) == [ type |-> eval_type_double, as_int |-> 0, as_double |-> r ]

\* eval_value{}
eval_value == eval_int(0)

\* the ids of the operators, as default_punctuations numbers them
PunctId(str) == CHOOSE i \in 0..(default_punctuations_size - 1) : DefaultStrings[i + 1] = str

punct_none             == PunctId(nullptr)
punct_add              == PunctId(<< "+" >>)
punct_sub              == PunctId(<< "-" >>)
punct_mul              == PunctId(<< "*" >>)
punct_div              == PunctId(<< "/" >>)
punct_mod              == PunctId(<< "%" >>)
punct_rshift           == PunctId(<< ">", ">" >>)
punct_lshift           == PunctId(<< "<", "<" >>)
punct_logic_and        == PunctId(<< "&", "&" >>)
punct_logic_or         == PunctId(<< "|", "|" >>)
punct_logic_not        == PunctId(<< "!" >>)
punct_logic_not_eq     == PunctId(<< "!", "=" >>)
punct_logic_greater    == PunctId(<< ">" >>)
punct_logic_less       == PunctId(<< "<" >>)
punct_logic_greater_eq == PunctId(<< ">", "=" >>)
punct_logic_less_eq    == PunctId(<< "<", "=" >>)
punct_bitwise_and      == PunctId(<< "&" >>)
punct_bitwise_or       == PunctId(<< "|" >>)
punct_bitwise_xor      == PunctId(<< "^" >>)
punct_bitwise_not      == PunctId(<< "~" >>)
punct_colon            == PunctId(<< ":" >>)
punct_question_mark    == PunctId(<< "?" >>)

\* get_operator_precedence
get_operator_precedence(op) ==
    IF op \in { punct_colon, punct_question_mark } THEN 5
    ELSE IF op = punct_logic_or THEN 6
    ELSE IF op = punct_logic_and THEN 7
    ELSE IF op = punct_bitwise_or THEN 8
    ELSE IF op = punct_bitwise_xor THEN 9
    ELSE IF op = punct_bitwise_and THEN 10
    ELSE IF op \in { punct_logic_eq, punct_logic_not_eq } THEN 11
    ELSE IF op \in { punct_logic_greater_eq, punct_logic_less_eq,
                     punct_logic_greater, punct_logic_less } THEN 12
    ELSE IF op \in { punct_rshift, punct_lshift } THEN 13
    ELSE IF op \in { punct_add, punct_sub } THEN 14
    ELSE IF op \in { punct_mul, punct_div, punct_mod } THEN 15
    ELSE IF op = punct_bitwise_not THEN 16
    ELSE IF op = punct_logic_not THEN 17
    ELSE 0

\* lhs / rhs and lhs % rhs on std::int64_t: the quotient is truncated
\* towards zero and the remainder has the sign of lhs.
IntDiv(lhs, rhs) ==
    LET q == Magnitude(lhs) \div Magnitude(rhs)
    IN  IF (lhs < 0) # (rhs < 0) THEN -q ELSE q

IntMod(lhs, rhs) == lhs - rhs * IntDiv(lhs, rhs)

\* lhs & rhs, lhs | rhs and lhs ^ rhs on two's complement words
IntAnd(lhs, rhs) ==
    IF lhs >= 0 /\ rhs >= 0 THEN BitAnd(lhs, rhs)
    ELSE IF lhs >= 0 THEN lhs - BitAnd(lhs, -rhs - 1)
    ELSE IF rhs >= 0 THEN rhs - BitAnd(rhs, -lhs - 1)
    ELSE -((-lhs - 1) + (-rhs - 1) - BitAnd(-lhs - 1, -rhs - 1)) - 1

IntOr(lhs, rhs)  == lhs + rhs - IntAnd(lhs, rhs)
IntXor(lhs, rhs) == lhs + rhs - 2 * IntAnd(lhs, rhs)

\* The shift counts the model computes: a count below zero or above
\* MaxShift has no defined result (or one the model's integers cannot
\* hold), and an evaluation that meets one is followed no further.
MaxShift == 24

Applied(value)  == [ ok |-> TRUE, value |-> value, error |-> "none" ]
Failed(message) == [ ok |-> FALSE, value |-> eval_value, error |-> message ]
Undefined       == Failed("undefined")

\* the value of a C++ bool
Truth(b) == IF b THEN 1 ELSE 0

\* lhs / rhs and lhs % rhs as apply_op_int computes them: no result is
\* defined for a zero divisor.
Quotient(lhs, rhs)  == IF rhs = 0 THEN Undefined ELSE Applied(eval_int(IntDiv(lhs, rhs)))
Remainder(lhs, rhs) == IF rhs = 0 THEN Undefined ELSE Applied(eval_int(IntMod(lhs, rhs)))

\* apply_op_int: const bool is_division
is_division_only_div(op) == op = punct_div

is_division(op) == op = punct_div \/ op = punct_mod

\* apply_op_int
apply_op_int(lhs, rhs, op) ==
    IF is_division(op) /\ rhs = 0
    THEN Failed("integer division by zero in preprocessor expression!")
    ELSE IF op = punct_add THEN Applied(eval_int(lhs + rhs))
    ELSE IF op = punct_sub THEN Applied(eval_int(lhs - rhs))
    ELSE IF op = punct_mul THEN Applied(eval_int(lhs * rhs))
    ELSE IF op = punct_div THEN Quotient(lhs, rhs)
    ELSE IF op = punct_mod THEN Remainder(lhs, rhs)
    ELSE IF op = punct_rshift
    THEN IF rhs \in 0..MaxShift THEN Applied(eval_int(lhs \div Pow2(rhs))) ELSE Undefined
    ELSE IF op = punct_lshift
    THEN IF rhs \in 0..MaxShift THEN Applied(eval_int(lhs * Pow2(rhs))) ELSE Undefined
    ELSE IF op = punct_logic_and THEN Applied(eval_int(Truth(lhs # 0 /\ rhs # 0)))
    ELSE IF op = punct_logic_or THEN Applied(eval_int(Truth(lhs # 0 \/ rhs # 0)))
    ELSE IF op = punct_logic_eq THEN Applied(eval_int(Truth(lhs = rhs)))
    ELSE IF op = punct_logic_not_eq THEN Applied(eval_int(Truth(lhs # rhs)))
    ELSE IF op = punct_logic_greater THEN Applied(eval_int(Truth(lhs > rhs)))
    ELSE IF op = punct_logic_less THEN Applied(eval_int(Truth(lhs < rhs)))
    ELSE IF op = punct_logic_greater_eq THEN Applied(eval_int(Truth(lhs >= rhs)))
    ELSE IF op = punct_logic_less_eq THEN Applied(eval_int(Truth(lhs <= rhs)))
    ELSE IF op = punct_bitwise_and THEN Applied(eval_int(IntAnd(lhs, rhs)))
    ELSE IF op = punct_bitwise_or THEN Applied(eval_int(IntOr(lhs, rhs)))
    ELSE IF op = punct_bitwise_xor THEN Applied(eval_int(IntXor(lhs, rhs)))
    ELSE Failed("operator is not legal in integer preprocessor expression!")

\* apply_op_double
apply_op_double(lhs, rhs, op) ==
    IF op = punct_div /\ RatIsZero(rhs)
    THEN Failed("floating-point division by zero in preprocessor expression!")
    ELSE IF op = punct_add THEN Applied(eval_double(RatAdd(lhs, rhs)))
    ELSE IF op = punct_sub THEN Applied(eval_double(RatSub(lhs, rhs)))
    ELSE IF op = punct_mul THEN Applied(eval_double(RatMul(lhs, rhs)))
    ELSE IF op = punct_div THEN Applied(eval_double(RatDiv(lhs, rhs)))
    ELSE IF op = punct_logic_and
    THEN Applied(eval_int(Truth(~RatIsZero(lhs) /\ ~RatIsZero(rhs))))
    ELSE IF op = punct_logic_or
    THEN Applied(eval_int(Truth(~RatIsZero(lhs) \/ ~RatIsZero(rhs))))
    ELSE IF op = punct_logic_eq THEN Applied(eval_int(Truth(lhs = rhs)))
    ELSE IF op = punct_logic_not_eq THEN Applied(eval_int(Truth(lhs # rhs)))
    ELSE IF op = punct_logic_greater THEN Applied(eval_int(Truth(RatLess(rhs, lhs))))
    ELSE IF op = punct_logic_less THEN Applied(eval_int(Truth(RatLess(lhs, rhs))))
    ELSE IF op = punct_logic_greater_eq THEN Applied(eval_int(Truth(~RatLess(lhs, rhs))))
    ELSE IF op = punct_logic_less_eq THEN Applied(eval_int(Truth(~RatLess(rhs, lhs))))
    ELSE Failed("operator is not legal in floating-point preprocessor expression!")

\* resolve_subexpr
resolve_subexpr(lhs, rhs, op) ==
    IF lhs.type = eval_type_int /\ rhs.type = eval_type_int
    THEN apply_op_int(lhs.as_int, rhs.as_int, op)
    ELSE IF lhs.type = eval_type_double /\ rhs.type = eval_type_double
    THEN apply_op_double(lhs.as_double, rhs.as_double, op)
    ELSE IF lhs.type = eval_type_double /\ rhs.type = eval_type_int
    THEN apply_op_double(lhs.as_double, RatOfInt(rhs.as_int), op)
    ELSE IF lhs.type = eval_type_int /\ rhs.type = eval_type_double
    THEN apply_op_double(RatOfInt(lhs.as_int), rhs.as_double, op)
    ELSE Failed("unexpected types in preprocessor expression!")

\* token_to_value
token_to_value(tok, negate_it) ==
    IF HasFlag(tok, flag_integer) \/ HasFlag(tok, flag_boolean)
    THEN Applied(eval_int(as_int64(tok) * (IF negate_it THEN -1 ELSE 1)))
    ELSE IF HasFlag(tok, flag_floating_point)
    THEN Applied(eval_double(Rat(as_double(tok) * (IF negate_it THEN -1 ELSE 1), 100)))
    ELSE Failed("expected number or boolean value in preprocessor expression")

(***************************************************************************)
(* The evaluator state while process_tokens runs (record ev):              *)
(*   pc                "tokens": in the loop over the tokens; "reduce": in *)
(*                     the loop over the operators; "done": returned true; *)
(*                     "error": returned false; "undefined": met an        *)
(*                     operation without defined behaviour                 *)
(*   m_next_token_index                                                    *)
(*   values, operators the two linked lists, first link first; a link has  *)
(*                     the index of its node in val_stack or ops_stack     *)
(*   values_count, operators_count   the members of fixed_stack            *)
(*   last_was_value, negative_value, parentheses_count                     *)
(*   got_ternary_op_condition, ternary_op_condition                        *)
(*   result, error     *result_value and the message of the error          *)
(*   applied           observation: the last operator applied, its         *)
(*                     operands and its outcome                            *)
(* The evaluator runs with eval_flags::allow_math_funcs and with no macro  *)
(* defined; "defined" and the math constants are left out.                 *)
(***************************************************************************)
max_operators == 128
max_values    == 128

nullptr_link == 0 - 1   \* the nullptr a full stack returns
no_mathfunc  == << >>

value_link(value, parentheses, node) ==
    [ value |-> value, parentheses |-> parentheses, node |-> node ]

operator_link(op, mathfunc, precedence, parentheses, node) ==
    [ op |-> op, mathfunc |-> mathfunc, precedence |-> precedence,
      parentheses |-> parentheses, node |-> node ]

\* fixed_stack::new_operator and fixed_stack::new_value: the node handed
\* out and the count as the call leaves it
new_operator(operators_count) ==
    IF operators_count < max_operators
    THEN [ link |-> operators_count, count |-> operators_count + 1 ]
    ELSE [ link |-> nullptr_link, count |-> operators_count ]

\* fixed_stack::new_value without the test of the count
new_value_unchecked(values_count) ==
    [ link |-> values_count, count |-> values_count + 1 ]

new_value(values_count) ==
    IF values_count < max_values
    THEN [ link |-> values_count, count |-> values_count + 1 ]
    ELSE [ link |-> nullptr_link, count |-> values_count ]

\* builtin_math_funcs, the entry the model uses, and find_math_func
NameAbs == << "a", "b", "s" >>
NameUndefined == << "U" >>

find_math_func(wanted) == IF wanted = NameAbs THEN NameAbs ELSE no_mathfunc

\* math_func::fptr of "abs": std::fabs
mathfunc_fptr(mathfunc, x) == [ num |-> Magnitude(x.num), den |-> x.den ]

NoApplied ==
    [ op |-> punct_none, mathfunc |-> no_mathfunc, v1 |-> eval_value, v2 |-> eval_value,
      out |-> Applied(eval_value) ]

NoEval ==
    [ pc |-> "tokens", m_next_token_index |-> 0,
      values |-> << >>, operators |-> << >>,
      values_count |-> 0, operators_count |-> 0,
      last_was_value |-> FALSE, negative_value |-> FALSE, parentheses_count |-> 0,
      got_ternary_op_condition |-> FALSE, ternary_op_condition |-> eval_value,
      result |-> eval_value, error |-> "none", applied |-> NoApplied ]

too_long == "preprocessor expression is too long! No more stack space."

\* return m_preproc->error(message)
Fail(e, message) == [ e EXCEPT !.pc = "error", !.error = message ]

\* emit_mul_by_minus1
emit_mul_by_minus1(e) ==
    LET new_val == new_value(e.values_count)
        new_op  == new_operator(e.operators_count)
        counted == [ e EXCEPT !.values_count = new_val.count,
                              !.operators_count = new_op.count ]
    IN  IF new_val.link = nullptr_link \/ new_op.link = nullptr_link
        THEN Fail(counted, too_long)
        ELSE [ counted EXCEPT
                 !.values = Append(@, value_link(eval_int(-1), e.parentheses_count,
                                                 new_val.link)),
                 !.operators = Append(@, operator_link(punct_mul, no_mathfunc,
                                                       get_operator_precedence(punct_mul),
                                                       e.parentheses_count, new_op.link)) ]

\* process_tokens, case lexer::token::type::identifier
on_identifier(e, t) ==
    IF e.last_was_value THEN Fail(e, "syntax error in preprocessor expression!")
    ELSE LET n == IF e.negative_value THEN emit_mul_by_minus1(e) ELSE e
             v == new_value(n.values_count)
             o == new_operator(n.operators_count)
         IN  IF n.pc = "error" THEN n
             ELSE IF find_math_func(t.m_string) # no_mathfunc
             THEN IF v.link = nullptr_link \/ o.link = nullptr_link
                  THEN Fail([ n EXCEPT !.negative_value = FALSE,
                                       !.values_count = v.count,
                                       !.operators_count = o.count ], too_long)
                  ELSE [ n EXCEPT
                           !.negative_value = FALSE,
                           !.values_count = v.count,
                           !.operators_count = o.count,
                           !.values = Append(@, value_link(eval_int(0), n.parentheses_count,
                                                           v.link)),
                           !.operators = Append(@, operator_link(punct_none,
                                                       find_math_func(t.m_string), 999,
                                                       n.parentheses_count, o.link)),
                           !.last_was_value = FALSE ]
             ELSE Fail([ n EXCEPT !.negative_value = FALSE ],
                       "reference to undefined preprocessor constant")

\* process_tokens, case lexer::token::type::number
on_number(e, t) ==
    IF e.last_was_value THEN Fail(e, "syntax error in preprocessor expression!")
    ELSE LET v   == new_value(e.values_count)
             out == token_to_value(t, e.negative_value)
             n   == [ e EXCEPT !.values_count = v.count ]
         IN  IF v.link = nullptr_link THEN Fail(n, too_long)
             ELSE IF ~out.ok THEN Fail(n, out.error)
             ELSE [ n EXCEPT
                      !.values = Append(@, value_link(out.value, e.parentheses_count, v.link)),
                      !.last_was_value = TRUE,
                      !.negative_value = FALSE ]

BinaryOperators ==
    { punct_mul, punct_div, punct_mod, punct_rshift, punct_lshift,
      punct_logic_greater, punct_logic_less, punct_logic_greater_eq, punct_logic_less_eq,
      punct_logic_eq, punct_logic_not_eq, punct_logic_and, punct_logic_or,
      punct_bitwise_and, punct_bitwise_or, punct_bitwise_xor,
      punct_colon, punct_question_mark }

\* process_tokens: "Make a new operator node if not a unary negation or unary plus"
emit_operator(e, punct_id) ==
    LET o == new_operator(e.operators_count)
        n == [ e EXCEPT !.operators_count = o.count ]
    IN  IF o.link = nullptr_link THEN Fail(n, too_long)
        ELSE [ n EXCEPT
                 !.operators = Append(@, operator_link(punct_id, no_mathfunc,
                                                       get_operator_precedence(punct_id),
                                                       e.parentheses_count, o.link)),
                 !.last_was_value = FALSE ]

\* process_tokens: switch (punct_id) and what follows it
on_operator(e, punct_id) ==
    IF punct_id \in { punct_logic_not, punct_bitwise_not }
    THEN IF e.last_was_value
         THEN Fail(e, "invalid logic not or two's complement after value")
         ELSE emit_operator(e, punct_id)
    ELSE IF punct_id = punct_sub /\ ~e.last_was_value
    THEN [ e EXCEPT !.negative_value = TRUE ]
    ELSE IF punct_id \in { punct_sub, punct_add } /\ ~e.last_was_value
    THEN e
    ELSE IF punct_id \in BinaryOperators \cup { punct_sub, punct_add }
    THEN IF ~e.last_was_value
         THEN Fail(e, "invalid operator after operator in preprocessor expression.")
         ELSE emit_operator(e, punct_id)
    ELSE Fail(e, "invalid operator in preprocessor expression.")

\* process_tokens, case lexer::token::type::punctuation
on_punctuation(e, t) ==
    IF is_punctuation_token(t, punct_open_parentheses)
    THEN LET n == IF e.negative_value THEN emit_mul_by_minus1(e) ELSE e
         IN  IF n.pc = "error" THEN n
             ELSE [ n EXCEPT
                      !.last_was_value = IF e.negative_value THEN FALSE ELSE @,
                      !.negative_value = FALSE,
                      !.parentheses_count = @ + 1 ]
    ELSE IF is_punctuation_token(t, punct_close_parentheses)
    THEN IF e.parentheses_count - 1 < 0
         THEN Fail([ e EXCEPT !.parentheses_count = @ - 1 ],
                   "too many ')' in preprocessor directive!")
         ELSE [ e EXCEPT !.parentheses_count = @ - 1 ]
    ELSE IF e.negative_value
    THEN IF t.m_flags = punct_sub THEN [ e EXCEPT !.negative_value = FALSE ]
         ELSE IF t.m_flags = punct_add THEN e
         ELSE IF t.m_flags \in { punct_logic_not, punct_bitwise_not }
         THEN LET n == emit_mul_by_minus1(e)
              IN  IF n.pc = "error" THEN n
                  ELSE on_operator([ n EXCEPT !.last_was_value = FALSE,
                                              !.negative_value = FALSE ], t.m_flags)
         ELSE Fail(e, "misplaced minus sign in preprocessor expression!")
    ELSE on_operator(e, t.m_flags)

\* process_tokens: one turn of the loop over the tokens, and what follows
\* the loop when next_token() returns nullptr
take_token(e, tokens) ==
    IF e.m_next_token_index < Len(tokens)
    THEN LET t == tokens[e.m_next_token_index + 1]
             n == [ e EXCEPT !.m_next_token_index = @ + 1 ]
         IN  IF t.m_type = "identifier" THEN on_identifier(n, t)
             ELSE IF t.m_type = "number" THEN on_number(n, t)
             ELSE IF t.m_type = "punctuation" THEN on_punctuation(n, t)
             ELSE Fail(n, "unexpected token in preprocessor directive!")
    ELSE IF ~e.last_was_value
    THEN Fail(e, "trailing operator in preprocessor expression!")
    ELSE IF e.parentheses_count > 0
    THEN Fail(e, "too many '(' in preprocessor directive!")
    ELSE [ e EXCEPT !.pc = "reduce" ]

is_unary(op) == op = punct_logic_not \/ op = punct_bitwise_not

\* process_tokens, the loop "for each operator": the operator it stops at.
\* First the loop with > where the code's test of the precedence has >=.
BreaksAt_only_higher(ops, j) ==
    \/ ops[j].parentheses > ops[j + 1].parentheses
    \/ /\ ops[j].parentheses = ops[j + 1].parentheses
       /\ ops[j].precedence > ops[j + 1].precedence

BreaksAt(ops, j) ==
    \/ ops[j].parentheses > ops[j + 1].parentheses
    \/ /\ ops[j].parentheses = ops[j + 1].parentheses
       /\ ops[j].precedence >= ops[j + 1].precedence

StopsAt(ops) ==
    LET breaks == { j \in 1..(Len(ops) - 1) : BreaksAt(ops, j) }
    IN  IF breaks = { } THEN Len(ops)
        ELSE CHOOSE j \in breaks : \A k \in breaks : j <= k

\* ... and the value v it has walked to: one step for every operator passed
\* that is not unary
ValueAt(ops, k) == 1 + Cardinality({ j \in 1..(k - 1) : ~is_unary(ops[j].op) })

RemoveAt(list, k) == [ i \in 1..(Len(list) - 1) |-> IF i < k THEN list[i] ELSE list[i + 1] ]

\* process_tokens, switch (o->op): the outcome for v1
apply_operator(e, o, v1, v2, has_v2) ==
    IF o.op = punct_logic_not
    THEN IF v1.type = eval_type_int
         THEN Applied(eval_int(Truth(v1.as_int = 0)))
         ELSE Applied(eval_double(RatOfInt(Truth(RatIsZero(v1.as_double)))))
    ELSE IF o.op = punct_bitwise_not
    THEN IF v1.type = eval_type_int
         THEN Applied(eval_int(-v1.as_int - 1))
         ELSE Failed("operator '~' cannot be applied to floating-point value!")
    ELSE IF o.op = punct_colon
    THEN IF ~e.got_ternary_op_condition
         THEN Failed("':' without '?' in preprocessor directive!")
         ELSE IF ~has_v2 THEN Undefined
         ELSE IF e.ternary_op_condition.type = eval_type_double
         THEN IF RatIsZero(e.ternary_op_condition.as_double)
              THEN Applied(v2) ELSE Applied(v1)
         ELSE IF e.ternary_op_condition.as_int = 0 THEN Applied(v2) ELSE Applied(v1)
    ELSE IF o.op = punct_question_mark
    THEN IF e.got_ternary_op_condition
         THEN Failed("'?' after '?' in preprocessor directive!")
         ELSE Applied(v1)
    ELSE IF ~has_v2 THEN Undefined
    ELSE IF o.mathfunc # no_mathfunc
    THEN Applied(eval_double(mathfunc_fptr(o.mathfunc,
                    IF v2.type = eval_type_double THEN v2.as_double
                    ELSE RatOfInt(v2.as_int))))
    ELSE resolve_subexpr(v1, v2, o.op)

\* process_tokens: one turn of the loop "while (first_operator != nullptr)",
\* and what follows the loop when no operator is left
reduce_step(e) ==
    IF e.operators = << >>
    THEN [ e EXCEPT !.pc = "done", !.result = e.values[1].value ]
    ELSE LET k      == StopsAt(e.operators)
             at     == ValueAt(e.operators, k)
             o      == e.operators[k]
             has_v2 == at + 1 <= Len(e.values)
             v1     == e.values[at].value
             v2     == IF has_v2 THEN e.values[at + 1].value ELSE eval_value
             out    == apply_operator(e, o, v1, v2, has_v2)
             seen   == [ op |-> o.op, mathfunc |-> o.mathfunc, v1 |-> v1, v2 |-> v2,
                         out |-> out ]
         IN  IF at > Len(e.values)
             THEN IF k > 1
                  THEN Fail(e, "expected more values in preprocessor expression!")
                  ELSE [ e EXCEPT !.pc = "undefined" ]
             ELSE IF ~out.ok
             THEN IF out.error = "undefined"
                  THEN [ e EXCEPT !.pc = "undefined", !.applied = seen ]
                  ELSE [ Fail(e, out.error) EXCEPT !.applied = seen ]
             ELSE [ e EXCEPT
                      !.applied = seen,
                      !.got_ternary_op_condition =
                          IF o.op = punct_question_mark THEN TRUE
                          ELSE IF o.op = punct_colon THEN FALSE ELSE @,
                      !.ternary_op_condition =
                          IF o.op = punct_question_mark THEN v1
                          ELSE IF o.op = punct_colon THEN eval_value ELSE @,
                      !.values =
                          LET set == [ e.values EXCEPT ![at].value = out.value ]
                          IN  IF is_unary(o.op) THEN set
                              ELSE IF o.op = punct_question_mark THEN RemoveAt(set, at)
                              ELSE RemoveAt(set, at + 1),
                      !.operators = RemoveAt(e.operators, k) ]

(***************************************************************************)
(* The expressions evaluated.  Three literals, each 0 or 1, under two       *)
(* operators in the three ways parentheses can group them, two literals    *)
(* (integers or doubles) under one operator, one literal under one or two  *)
(* prefix operators, four literals under three operators, some with a      *)
(* function call, a name or a fault of syntax, and expressions about as    *)
(* long as the stacks of fixed_stack.                                      *)
(***************************************************************************)
IntTok(n)     == Tok(format_digits(n), "number",
                     flag_integer + flag_signed_integer + flag_decimal)
FloatTok(str) == Tok(str, "number",
                     flag_decimal + flag_floating_point + flag_double_precision)
OpTok(id)     == Tok(default_punctuations[id].str, "punctuation", id)

OnePointFive == FloatTok(<< "1", ".", "5" >>)
ZeroPointZero == FloatTok(<< "0", ".", "0" >>)

IntOperands == { IntTok(n) : n \in 0..MaxOperand }
Operands    == IntOperands \cup { OnePointFive, ZeroPointZero }

InfixOperators  == BinaryOperators \cup { punct_add, punct_sub }
PrefixOperators == { punct_logic_not, punct_bitwise_not, punct_sub, punct_add }
DeepOperators   == { punct_sub, punct_mul, punct_logic_less, punct_logic_or }
DeepOperands    == { IntTok(1), IntTok(2) }
PairOperands    == { IntTok(0), IntTok(1) }

TwoOperatorExprs ==
    UNION { { << a, OpTok(o1), b, OpTok(o2), c >>,
              << OpenParen, a, OpTok(o1), b, CloseParen, OpTok(o2), c >>,
              << a, OpTok(o1), OpenParen, b, OpTok(o2), c, CloseParen >> } :
            << a, b, c, o1, o2 >> \in PairOperands \X PairOperands \X PairOperands
                                        \X InfixOperators \X InfixOperators }

OneOperatorExprs ==
    { << a, OpTok(o), b >> : << a, o, b >> \in Operands \X InfixOperators \X Operands }

PrefixExprs ==
    { << OpTok(u), a >> : << u, a >> \in PrefixOperators \X Operands }
    \cup { << OpTok(u), OpTok(w), a >> :
             << u, w, a >> \in PrefixOperators \X PrefixOperators \X Operands }

ThreeOperatorExprs ==
    UNION { { << a, OpTok(o1), b, OpTok(o2), c, OpTok(o3), d >>,
              << a, OpTok(o1), OpenParen, b, OpTok(o2), c, CloseParen, OpTok(o3), d >>,
              << OpenParen, a, OpTok(o1), b, CloseParen, OpTok(o2),
                 OpenParen, c, OpTok(o3), d, CloseParen >> } :
            << a, b, c, d, o1, o2, o3 >> \in
                DeepOperands \X DeepOperands \X DeepOperands \X DeepOperands
                    \X DeepOperators \X DeepOperators \X DeepOperators }

OtherExprs ==
    { << IdTok(NameAbs), OpenParen, OpTok(punct_sub), IntTok(2), CloseParen >>,
      << IdTok(NameAbs), OpenParen, OnePointFive, CloseParen, OpTok(punct_add), IntTok(1) >>,
      << OpTok(punct_logic_not), IdTok(NameAbs), OpenParen, IntTok(1), CloseParen >>,
      << IdTok(NameUndefined), OpTok(punct_add), IntTok(1) >>,
      << IntTok(1), IntTok(2) >>,
      << OpenParen, IntTok(1) >>,
      << IntTok(1), CloseParen >>,
      << IntTok(1), OpTok(punct_add) >>,
      << IntTok(1), OpTok(punct_assign), IntTok(1) >>,
      << IntTok(1), OpTok(punct_sub), OpTok(punct_mul), IntTok(1) >>,
      << IntTok(1), Tok(<< "s" >>, "string", 0) >>,
      << IntTok(2), OpTok(punct_div), OpTok(punct_sub), OpenParen, IntTok(1),
         OpTok(punct_add), IntTok(1), CloseParen >>,
      << IntTok(1), OpTok(punct_question_mark), IntTok(2), OpTok(punct_colon), IntTok(0),
         OpTok(punct_question_mark), IntTok(1), OpTok(punct_colon), IntTok(2) >> }

\* n literals under n - 1 additions: 1 + 1 + ... + 1
Sum(n) == [ i \in 1..(2 * n - 1) |-> IF i % 2 = 1 THEN IntTok(1) ELSE OpTok(punct_add) ]

\* a literal under n negations: ! ! ... ! 1
Nots(n) == [ i \in 1..(n + 1) |-> IF i <= n THEN OpTok(punct_logic_not) ELSE IntTok(1) ]

\* a literal under n nested unary minus signs: - ( - ( ... ( 1 ) ... ) )
Minuses(n) ==
    [ i \in 1..(3 * n + 1) |->
        IF i <= 2 * n THEN (IF i % 2 = 1 THEN OpTok(punct_sub) ELSE OpenParen)
        ELSE IF i = 2 * n + 1 THEN IntTok(1)
        ELSE CloseParen ]

\* a literal under n nested calls: abs ( abs ( ... ( 1 ) ... ) )
Calls(n) ==
    [ i \in 1..(3 * n + 1) |->
        IF i <= 2 * n THEN (IF i % 2 = 1 THEN IdTok(NameAbs) ELSE OpenParen)
        ELSE IF i = 2 * n + 1 THEN IntTok(1)
        ELSE CloseParen ]

LongLengths == (max_values - 1)..(max_values + 1)

LongExprs ==
    UNION { { Sum(n), Nots(n), Minuses(n), Calls(n) } : n \in LongLengths }

Expressions ==
    TwoOperatorExprs \cup OneOperatorExprs \cup PrefixExprs \cup ThreeOperatorExprs
        \cup OtherExprs \cup LongExprs

eval_frame == << pp_vars, tab_vars, mx_vars, lex_vars, punct_vars, files, table_obs,
                 tok_vars, space_vars, punct_static, expr >>

InitEval ==
    /\ PPIdle /\ PunctIdle /\ TableIdle /\ TokenIdle /\ SpaceIdle /\ StaticIdle
    /\ MacroIdle /\ LexIdle
    /\ files = << >>
    /\ pp_state = "off"
    /\ m_macros = << >>
    /\ m_macro_tokens = << >>
    /\ expr \in Expressions
    /\ ev = NoEval

\* process_tokens: the next token, or the end of the tokens
TakeToken ==
    /\ ev.pc = "tokens"
    /\ ev' = take_token(ev, expr)
    /\ UNCHANGED eval_frame

\* process_tokens: the next operator applied, or the result
ReduceStep ==
    /\ ev.pc = "reduce"
    /\ ev' = reduce_step(ev)
    /\ UNCHANGED eval_frame

NextEval == TakeToken \/ ReduceStep

SpecEval == InitEval /\ [][NextEval]_vars

Evaluated == ev.pc \in { "done", "error", "undefined" }

(***************************************************************************)
(* The value of an expression over binary operators by grouping: enclosing *)
(* parentheses are dropped; otherwise the expression is split at the       *)
(* operator outside all parentheses that binds least, the last one of      *)
(* equal precedence, and the operator is applied to the values of the two  *)
(* sides.                                                                  *)
(***************************************************************************)
IsOpen(t)  == is_punctuation_token(t, punct_open_parentheses)
IsClose(t) == is_punctuation_token(t, punct_close_parentheses)

\* the number of parentheses open after the first i tokens
DepthAfter(tokens, i) ==
    Cardinality({ j \in 1..i : IsOpen(tokens[j]) })
        - Cardinality({ j \in 1..i : IsClose(tokens[j]) })

Enclosed(tokens) ==
    /\ Len(tokens) >= 2
    /\ IsOpen(tokens[1])
    /\ IsClose(tokens[Len(tokens)])
    /\ \A i \in 1..(Len(tokens) - 1) : DepthAfter(tokens, i) >= 1

TopOperators(tokens) ==
    { i \in 1..Len(tokens) :
        /\ tokens[i].m_type = "punctuation"
        /\ ~IsOpen(tokens[i]) /\ ~IsClose(tokens[i])
        /\ DepthAfter(tokens, i) = 0 }

StatedPrecedence(op) ==
    IF op \in { punct_mul, punct_div, punct_mod } THEN 15
    ELSE IF op \in { punct_add, punct_sub } THEN 14
    ELSE IF op \in { punct_lshift, punct_rshift } THEN 13
    ELSE IF op \in { punct_logic_less, punct_logic_greater,
                     punct_logic_less_eq, punct_logic_greater_eq } THEN 12
    ELSE IF op \in { punct_logic_eq, punct_logic_not_eq } THEN 11
    ELSE IF op = punct_bitwise_and THEN 10
    ELSE IF op = punct_bitwise_xor THEN 9
    ELSE IF op = punct_bitwise_or THEN 8
    ELSE IF op = punct_logic_and THEN 7
    ELSE 6

SplitAt(tokens) ==
    LET tops == TopOperators(tokens)
    IN  CHOOSE i \in tops :
            \A j \in tops :
                \/ StatedPrecedence(tokens[i].m_flags) < StatedPrecedence(tokens[j].m_flags)
                \/ /\ StatedPrecedence(tokens[i].m_flags) = StatedPrecedence(tokens[j].m_flags)
                   /\ j <= i

RECURSIVE Grouped(_)
Grouped(tokens) ==
    IF Len(tokens) = 1 THEN token_to_value(tokens[1], FALSE)
    ELSE IF Enclosed(tokens) THEN Grouped(SubSeq(tokens, 2, Len(tokens) - 1))
    ELSE LET i     == SplitAt(tokens)
             left  == Grouped(SubSeq(tokens, 1, i - 1))
             right == Grouped(SubSeq(tokens, i + 1, Len(tokens)))
         IN  IF ~left.ok THEN left
             ELSE IF ~right.ok THEN right
             ELSE resolve_subexpr(left.value, right.value, tokens[i].m_flags)

\* the binary operators: the infix ones but the two halves of ? :
OverBinaryOperators(tokens) ==
    /\ tokens \in TwoOperatorExprs \cup ThreeOperatorExprs
    /\ \A i \in 1..Len(tokens) :
          tokens[i].m_type = "punctuation" =>
              tokens[i].m_flags \notin { punct_colon, punct_question_mark }

\* C21: an expression over the binary operators evaluates to the value of
\* its grouping by the stated precedence: the deeper parentheses first, the
\* higher precedence next, and left to right among equals.  When the
\* grouping has a value the evaluator returns it, and when an operation of
\* the grouping fails the evaluator fails.
C21_PrecedenceGrouping ==
    (Evaluated /\ OverBinaryOperators(expr)) =>
        \A g \in { Grouped(expr) } :
            /\ (ev.pc = "done") = g.ok
            /\ g.ok => ev.result = g.value

\* 2 - 1 * 2 - 1 is 2 - (1 * 2) - 1, which is -1.
C21_Witness ==
    /\ ev.pc = "done"
    /\ expr = << IntTok(2), OpTok(punct_sub), IntTok(1), OpTok(punct_mul), IntTok(2),
                 OpTok(punct_sub), IntTok(1) >>
    /\ ev.result = eval_int(-1)

\* a && (b o c) with a zero and a || (b o c) with a not zero, where b o c
\* alone is a division by zero
RightOperand(tokens) == SubSeq(tokens, 4, 6)

NeedsNoRightOperand(tokens) ==
    /\ Len(tokens) = 7
    /\ tokens[1].m_type = "number"
    /\ IsOpen(tokens[3]) /\ IsClose(tokens[7])
    /\ \/ is_punctuation_token(tokens[2], punct_logic_and) /\ as_int64(tokens[1]) = 0
       \/ is_punctuation_token(tokens[2], punct_logic_or) /\ as_int64(tokens[1]) # 0
    /\ tokens[5].m_flags \in { punct_div, punct_mod }
    /\ ~Grouped(RightOperand(tokens)).ok

\* C22: && and || are short-circuit operators: with a zero on the left of
\* && or a value that is not zero on the left of ||, an error in the right
\* operand is not raised and the expression has the value of the left side
\* as a truth value.
C22_ShortCircuit ==
    (Evaluated /\ NeedsNoRightOperand(expr)) =>
        /\ ev.pc = "done"
        /\ ev.result = eval_int(Truth(as_int64(expr[1]) # 0))

\* 0 && ( 1 / 0 ) was evaluated: the division was applied and failed.
C22_Witness ==
    /\ expr = << IntTok(0), OpTok(punct_logic_and), OpenParen, IntTok(1), OpTok(punct_div),
                 IntTok(0), CloseParen >>
    /\ ev.pc = "error"
    /\ ev.applied.op = punct_div
    /\ ev.error = "integer division by zero in preprocessor expression!"

\* When the right operand has a value, && and || give the truth value C
\* gives them.
C22_BothOperandsEvaluated ==
    (/\ Evaluated
     /\ Len(expr) = 7
     /\ expr \in TwoOperatorExprs
     /\ IsOpen(expr[3])
     /\ expr[2].m_flags \in { punct_logic_and, punct_logic_or }
     /\ Grouped(RightOperand(expr)).ok) =>
        /\ ev.pc = "done"
        /\ ev.result =
             eval_int(Truth(IF expr[2].m_flags = punct_logic_and
                            THEN as_int64(expr[1]) # 0
                                    /\ Grouped(RightOperand(expr)).value.as_int # 0
                            ELSE as_int64(expr[1]) # 0
                                    \/ Grouped(RightOperand(expr)).value.as_int # 0))

RelationalOperators ==
    { punct_logic_eq, punct_logic_not_eq, punct_logic_greater, punct_logic_less,
      punct_logic_greater_eq, punct_logic_less_eq }
LogicalOperators    == { punct_logic_and, punct_logic_or, punct_logic_not }
ArithmeticOperators == { punct_add, punct_sub, punct_mul, punct_div }

\* an operator was applied and gave a value
GaveValue == ev.applied.op # punct_none /\ ev.applied.out.ok

C23_ResultTypesButNotOfDouble ==
    (GaveValue /\ ~(ev.applied.op = punct_logic_not
                      /\ ev.applied.v1.type = eval_type_double)) =>
        /\ ev.applied.op \in RelationalOperators \cup LogicalOperators =>
              ev.applied.out.value.type = eval_type_int
        /\ (/\ ev.applied.op \in ArithmeticOperators
            /\ eval_type_double \in { ev.applied.v1.type, ev.applied.v2.type }) =>
              ev.applied.out.value.type = eval_type_double
        /\ (/\ ev.applied.op \in InfixOperators \ { punct_colon, punct_question_mark }
            /\ ev.applied.v1.type = eval_type_int
            /\ ev.applied.v2.type = eval_type_int) =>
              ev.applied.out.value.type = eval_type_int

IsZero(value) ==
    IF value.type = eval_type_int THEN value.as_int = 0 ELSE RatIsZero(value.as_double)

\* the last operator applied was / or % with a zero on its right
DividedByZero ==
    /\ ev.applied.op \in { punct_div, punct_mod }
    /\ IsZero(ev.applied.v2)

\* C24: a division or a modulo of integers by zero and a division of
\* doubles by zero are reported as errors and the evaluation fails; the
\* operation is never computed.
C24_DivisionByZeroIsError ==
    DividedByZero =>
        /\ ~ev.applied.out.ok
        /\ ev.pc = "error"
        /\ ev.error = ev.applied.out.error
        /\ { ev.applied.v1.type, ev.applied.v2.type } = { eval_type_int } =>
              ev.error = "integer division by zero in preprocessor expression!"
        /\ (/\ ev.applied.op = punct_div
            /\ eval_type_double \in { ev.applied.v1.type, ev.applied.v2.type }) =>
              ev.error = "floating-point division by zero in preprocessor expression!"

\* 1 % 0 was evaluated.
C24_Witness ==
    /\ expr = << IntTok(1), OpTok(punct_mod), IntTok(0) >>
    /\ DividedByZero
    /\ ev.pc = "error"
    /\ ev.values_count = 2

\* The nodes an expression needs: a value for every literal, a value and an
\* operator for every function call and for every minus sign in front of a
\* parenthesis, an operator for every other operator token.
MinusOfParenthesis(tokens, i) ==
    /\ is_punctuation_token(tokens[i], punct_sub)
    /\ i < Len(tokens)
    /\ IsOpen(tokens[i + 1])

Synthesized(tokens) ==
    { i \in 1..Len(tokens) :
        \/ tokens[i].m_type = "identifier" /\ find_math_func(tokens[i].m_string) # no_mathfunc
        \/ MinusOfParenthesis(tokens, i) }

NeededValues(tokens) ==
    Cardinality({ i \in 1..Len(tokens) : tokens[i].m_type = "number" })
        + Cardinality(Synthesized(tokens))

NeededOperators(tokens) ==
    Cardinality({ i \in 1..Len(tokens) :
                    /\ tokens[i].m_type = "punctuation"
                    /\ ~IsOpen(tokens[i]) /\ ~IsClose(tokens[i])
                    /\ ~is_punctuation_token(tokens[i], punct_sub) })
        + Cardinality(Synthesized(tokens))

Nodes(list) == { list[i].node : i \in 1..Len(list) }

\* C30: the two lists hold only nodes of the two stacks, each node once, no
\* more than were handed out; and an expression that needs more than
\* max_values values or max_operators operators is rejected with the error
\* of the full stack, while one that needs no more is evaluated.
C30_FixedStacks ==
    /\ ev.values_count \in 0..max_values
    /\ ev.operators_count \in 0..max_operators
    /\ Nodes(ev.values) \subseteq 0..(ev.values_count - 1)
    /\ Nodes(ev.operators) \subseteq 0..(ev.operators_count - 1)
    /\ Cardinality(Nodes(ev.values)) = Len(ev.values)
    /\ Cardinality(Nodes(ev.operators)) = Len(ev.operators)
    /\ (Evaluated /\ expr \in LongExprs) =>
          IF NeededValues(expr) > max_values \/ NeededOperators(expr) > max_operators
          THEN ev.pc = "error" /\ ev.error = too_long
          ELSE ev.pc = "done"

\* 1 + 1 + ... + 1 with one literal more than val_stack holds was rejected
\* at its last literal.
C30_Witness ==
    /\ expr = Sum(max_values + 1)
    /\ ev.pc = "error"
    /\ ev.error = too_long
    /\ ev.values_count = max_values
    /\ ev.m_next_token_index = Len(expr)
    /\ Len(ev.values) = max_values

====
